---------------------------- MODULE Spec2Model ----------------------------
(***************************************************************************)
(* Model of the expression evaluator of mcp-calculator-server (server.go,  *)
(* v0.5.4): evaluateExpression and the recursive-descent functions it      *)
(* calls, and the calculate tool handler handleCalculate.                  *)
(*                                                                         *)
(* An expression is a sequence of one-character strings.  A float64 is     *)
(* modelled as a sign-magnitude decimal rational                           *)
(*      (-1)^s * (n / d) * 10^e                                            *)
(* in normal form, or as an infinity, or as NaN.  Arithmetic on finite     *)
(* values is exact (the 53-bit rounding of float64 is not modelled); the   *)
(* sign of zero, overflow to infinity and underflow to zero are.           *)
(***************************************************************************)
EXTENDS Integers, Sequences, FiniteSets, TLC

(***************************************************************************)
(* Bounds of the model.                                                    *)
(***************************************************************************)
\* longest expression drawn character by character
MaxLen == 4

\* longest numeric text drawn character by character
MaxNumLen == 6

\* largest digit used as an operand of the three-operand expressions
MaxOperand == 3

(***************************************************************************)
(* float64 values.                                                         *)
(***************************************************************************)
RECURSIVE GCD(_, _)
GCD(a, b) ==
    IF b = 0 THEN a ELSE GCD(b, a % b)

RECURSIVE Pow10(_)
Pow10(k) ==
    IF k = 0 THEN 1 ELSE 10 * Pow10(k - 1)

Min2(a, b) ==
    IF a <= b THEN a ELSE b

\* the float64 zero with sign bit s
FZero(s) ==
    [k |-> "fin", s |-> s, n |-> 0, d |-> 1, e |-> 0]

FInf(s) ==
    [k |-> "inf", s |-> s, n |-> 0, d |-> 1, e |-> 0]

FNaN ==
    [k |-> "nan", s |-> 0, n |-> 0, d |-> 1, e |-> 0]

\* floor(log10(n/d)) for n, d > 0
RECURSIVE Lg(_, _)
Lg(n, d) ==
    IF n < d THEN Lg(10 * n, d) - 1
    ELSE IF n \div 10 >= d THEN Lg(n \div 10, d) + 1
    ELSE 0

\* decimal order of magnitude of a finite non-zero value
Mag(v) ==
    v.e + Lg(v.n, v.d)

\* n/d * 10^e exceeds the largest float64, 1.7976931348623157e308
\* (the leading digits are compared to four decimals)
Overflows(n, d, e) ==
    LET l == Lg(n, d)
    IN  \/ e + l > 308
        \/ /\ e + l = 308
           /\ IF l >= 0 THEN 10000 * n >= 17977 * d * Pow10(l)
                        ELSE 10000 * n * Pow10(-l) >= 17977 * d

\* n/d * 10^e is below half the smallest subnormal, 4.94e-324
Underflows(n, d, e) ==
    LET l == Lg(n, d)
    IN  \/ e + l < -324
        \/ /\ e + l = -324
           /\ IF l >= 0 THEN 100 * n <= 247 * d * Pow10(l)
                        ELSE 100 * n * Pow10(-l) <= 247 * d

\* normal form: n/d in lowest terms, 10 divides neither n nor d's factors
RECURSIVE NormFin(_, _, _, _)
NormFin(s, n, d, e) ==
    IF n = 0 THEN FZero(s)
    ELSE LET g == GCD(n, d)
         IN  IF g > 1 THEN NormFin(s, n \div g, d \div g, e)
             ELSE IF n % 10 = 0 THEN NormFin(s, n \div 10, d, e + 1)
             ELSE IF d % 2 = 0 THEN NormFin(s, n * 5, d \div 2, e - 1)
             ELSE IF d % 5 = 0 THEN NormFin(s, n * 2, d \div 5, e - 1)
             ELSE [k |-> "fin", s |-> s, n |-> n, d |-> d, e |-> e]

\* the float64 nearest to (-1)^s * n/d * 10^e, as far as range goes
Round(s, n, d, e) ==
    IF n = 0 THEN FZero(s)
    ELSE IF Overflows(n, d, e) THEN FInf(s)
    ELSE IF Underflows(n, d, e) THEN FZero(s)
    ELSE NormFin(s, n, d, e)

IsNaN(v) ==
    v.k = "nan"

\* the Go comparison v == 0: true of both zeros
IsZero(v) ==
    v.k = "fin" /\ v.n = 0

Neg(v) ==
    IF v.k = "nan" THEN v ELSE [v EXCEPT !.s = 1 - @]

Xor(s, t) ==
    IF s = t THEN 0 ELSE 1

\* sum of two finite values
AddFin(a, b) ==
    IF a.n = 0 /\ b.n = 0 THEN FZero(IF a.s = 1 /\ b.s = 1 THEN 1 ELSE 0)
    ELSE IF a.n = 0 THEN b
    ELSE IF b.n = 0 THEN a
    ELSE IF Mag(a) - Mag(b) > 17 THEN a
    ELSE IF Mag(b) - Mag(a) > 17 THEN b
    ELSE LET e0 == Min2(a.e, b.e)
             x  == a.n * Pow10(a.e - e0) * b.d
             y  == b.n * Pow10(b.e - e0) * a.d
             sx == IF a.s = 1 THEN -x ELSE x
             sy == IF b.s = 1 THEN -y ELSE y
             z  == sx + sy
         IN  IF z = 0 THEN FZero(0)
             ELSE IF z < 0 THEN Round(1, -z, a.d * b.d, e0)
             ELSE Round(0, z, a.d * b.d, e0)

Add(a, b) ==
    IF a.k = "nan" \/ b.k = "nan" THEN FNaN
    ELSE IF a.k = "inf" /\ b.k = "inf" THEN (IF a.s = b.s THEN a ELSE FNaN)
    ELSE IF a.k = "inf" THEN a
    ELSE IF b.k = "inf" THEN b
    ELSE AddFin(a, b)

Sub(a, b) ==
    Add(a, Neg(b))

Mul(a, b) ==
    IF a.k = "nan" \/ b.k = "nan" THEN FNaN
    ELSE IF a.k = "inf" \/ b.k = "inf"
         THEN (IF IsZero(a) \/ IsZero(b) THEN FNaN ELSE FInf(Xor(a.s, b.s)))
    ELSE Round(Xor(a.s, b.s), a.n * b.n, a.d * b.d, a.e + b.e)

Quo(a, b) ==
    IF a.k = "nan" \/ b.k = "nan" THEN FNaN
    ELSE IF a.k = "inf" THEN (IF b.k = "inf" THEN FNaN ELSE FInf(Xor(a.s, b.s)))
    ELSE IF b.k = "inf" THEN FZero(Xor(a.s, b.s))
    ELSE IF b.n = 0 THEN (IF a.n = 0 THEN FNaN ELSE FInf(Xor(a.s, b.s)))
    ELSE Round(Xor(a.s, b.s), a.n * b.d, a.d * b.n, a.e - b.e)

\* the float64 of the decimal constant n * 10^e
Dec(n, e) ==
    Round(0, n, 1, e)

\* float64(k) of an integer k
FromInt(k) ==
    IF k < 0 THEN Round(1, -k, 1, 0) ELSE Round(0, k, 1, 0)

\* -1, 0 or 1: the sign of a value that is not NaN (both zeros give 0)
Sgn(v) ==
    IF IsZero(v) THEN 0 ELSE IF v.s = 1 THEN -1 ELSE 1

\* -1, 0 or 1: |a| against |b| for non-zero values that are not NaN
CmpAbs(a, b) ==
    IF a.k = "inf" \/ b.k = "inf"
       THEN (IF a.k = b.k THEN 0 ELSE IF a.k = "inf" THEN 1 ELSE -1)
    ELSE IF Mag(a) # Mag(b) THEN (IF Mag(a) > Mag(b) THEN 1 ELSE -1)
    ELSE LET e0 == Min2(a.e, b.e)
             x  == a.n * Pow10(a.e - e0) * b.d
             y  == b.n * Pow10(b.e - e0) * a.d
         IN  IF x > y THEN 1 ELSE IF x < y THEN -1 ELSE 0

\* -1, 0 or 1: a against b for values that are not NaN
Cmp(a, b) ==
    IF Sgn(a) # Sgn(b) THEN (IF Sgn(a) < Sgn(b) THEN -1 ELSE 1)
    ELSE IF Sgn(a) = 0 THEN 0
    ELSE Sgn(a) * CmpAbs(a, b)

\* the Go comparisons a < b, a > b and a >= b: false when either is NaN
Lt(a, b) ==
    ~IsNaN(a) /\ ~IsNaN(b) /\ Cmp(a, b) < 0

Gt(a, b) ==
    ~IsNaN(a) /\ ~IsNaN(b) /\ Cmp(a, b) > 0

Ge(a, b) ==
    ~IsNaN(a) /\ ~IsNaN(b) /\ Cmp(a, b) >= 0

\* int64(v) for a finite v below 10^9 in magnitude: truncation towards zero
Int64(v) ==
    IF v.n = 0 THEN 0
    ELSE IF Mag(v) < 0 THEN 0
    ELSE LET q == IF v.e >= 0 THEN (v.n * Pow10(v.e)) \div v.d
                              ELSE v.n \div (v.d * Pow10(-v.e))
         IN  IF v.s = 1 THEN -q ELSE q

(***************************************************************************)
(* Characters and strconv.ParseFloat.                                      *)
(***************************************************************************)

DigitChars ==
    <<"0", "1", "2", "3", "4", "5", "6", "7", "8", "9">>

IsDigit(c) ==
    \E i \in 1..10 : DigitChars[i] = c

DigitVal(c) ==
    (CHOOSE i \in 1..10 : DigitChars[i] = c) - 1

\* mantissa of a decimal literal from index r.i on: digits with at most one
\* point; m is the digit string as an integer, f the digits after the point
RECURSIVE ReadMantissa(_, _)
ReadMantissa(str, r) ==
    IF r.i > Len(str) THEN r
    ELSE LET c == str[r.i]
         IN  IF c = "." /\ ~r.dot
                THEN ReadMantissa(str, [r EXCEPT !.i = @ + 1, !.dot = TRUE])
             ELSE IF IsDigit(c)
                THEN ReadMantissa(str, [r EXCEPT !.i = @ + 1, !.dig = TRUE,
                                                 !.m = 10 * @ + DigitVal(c),
                                                 !.f = IF r.dot THEN @ + 1 ELSE @])
             ELSE r

\* digits of the exponent from index r.i on (the value saturates at 10000)
RECURSIVE ReadExponent(_, _)
ReadExponent(str, r) ==
    IF r.i > Len(str) \/ ~IsDigit(str[r.i]) THEN r
    ELSE ReadExponent(str, [r EXCEPT !.i = @ + 1, !.dig = TRUE,
                                     !.x = IF @ < 10000 THEN 10 * @ + DigitVal(str[r.i])
                                                        ELSE @])

\* strconv.ParseFloat(str, 64) on text over 0-9 . e E + -: ok is FALSE on a
\* syntax error and on a value out of range (ErrRange)
ParseFloat(str) ==
    LET sgn  == IF Len(str) > 0 /\ str[1] = "-" THEN 1 ELSE 0
        i0   == IF Len(str) > 0 /\ str[1] \in {"+", "-"} THEN 2 ELSE 1
        mt   == ReadMantissa(str, [i |-> i0, dot |-> FALSE, dig |-> FALSE,
                                   m |-> 0, f |-> 0])
        hasE == mt.i <= Len(str) /\ str[mt.i] \in {"e", "E"}
        j0   == mt.i + 1
        esg  == IF hasE /\ j0 <= Len(str) /\ str[j0] = "-" THEN -1 ELSE 1
        j1   == IF hasE /\ j0 <= Len(str) /\ str[j0] \in {"+", "-"}
                   THEN j0 + 1 ELSE j0
        ex   == IF hasE THEN ReadExponent(str, [i |-> j1, dig |-> FALSE, x |-> 0])
                        ELSE [i |-> mt.i, dig |-> TRUE, x |-> 0]
        v    == Round(sgn, mt.m, 1, esg * ex.x - mt.f)
    IN  IF ~mt.dig \/ ~ex.dig \/ ex.i <= Len(str)
           THEN [ok |-> FALSE, val |-> FZero(0)]
        ELSE IF v.k = "inf" THEN [ok |-> FALSE, val |-> v]
        ELSE [ok |-> TRUE, val |-> v]

(***************************************************************************)
(* Errors of the evaluator, one kind per fmt.Errorf message.               *)
(***************************************************************************)
NoErr ==
    [kind |-> "none", ch |-> "", pos |-> 0, text |-> <<>>]

Err(kind, ch, pos, text) ==
    [kind |-> kind, ch |-> ch, pos |-> pos, text |-> text]

\* return 0, "", err
Fail(err) ==
    [val |-> FZero(0), rem |-> <<>>, err |-> err]

Ok(val, rem) ==
    [val |-> val, rem |-> rem, err |-> NoErr]

\* expr[i:] of Go (i counts from 0)
From(expr, i) ==
    SubSeq(expr, i + 1, Len(expr))

(***************************************************************************)
(* The recursive-descent evaluator.                                        *)
(***************************************************************************)
RECURSIVE parseExpression(_)
RECURSIVE parseAddSubWithRemaining(_)
RECURSIVE AddSubLoop(_, _)
RECURSIVE parseMulDiv(_)
RECURSIVE MulDivLoop(_, _)
RECURSIVE parseUnary(_)
RECURSIVE parseFactor(_)
RECURSIVE ScanNumber(_, _)

\* inner loop of parseNumber: the digits after an exponent marker
RECURSIVE ScanExpDigits(_, _)
ScanExpDigits(expr, i) ==
    IF i < Len(expr) /\ IsDigit(expr[i + 1]) THEN ScanExpDigits(expr, i + 1)
    ELSE i

\* ScanExponent without the optional sign
ScanExponent_NoSign(expr, i) ==
    ScanExpDigits(expr, i + 1)

\* the exponent branch of parseNumber: the marker, an optional sign, digits
ScanExponent(expr, i) ==
    LET i1 == i + 1
        i2 == IF i1 < Len(expr) /\ expr[i1 + 1] \in {"+", "-"} THEN i1 + 1 ELSE i1
    IN  ScanExpDigits(expr, i2)

\* ScanNumber leaving the loop after an exponent
ScanNumber_StopAfterExponent(expr, i) ==
    IF i >= Len(expr) THEN i
    ELSE LET c == expr[i + 1]
         IN  IF IsDigit(c) \/ c = "." THEN ScanNumber(expr, i + 1)
             ELSE IF c \in {"e", "E"} THEN ScanExponent(expr, i)
             ELSE i

\* outer loop of parseNumber: the index after the numeric text
ScanNumber(expr, i) ==
    IF i >= Len(expr) THEN i
    ELSE LET c == expr[i + 1]
         IN  IF IsDigit(c) \/ c = "." THEN ScanNumber(expr, i + 1)
             ELSE IF c \in {"e", "E"} THEN ScanNumber(expr, ScanExponent(expr, i))
             ELSE i

parseNumber(expr) ==
    IF Len(expr) = 0 THEN Fail(Err("UnexpectedEnd", "", 0, <<>>))
    ELSE LET i         == ScanNumber(expr, 0)
             numberStr == SubSeq(expr, 1, i)
             pf        == ParseFloat(numberStr)
         IN  IF i = 0 THEN Fail(Err("ExpectedNumber", expr[1], 0, <<>>))
             ELSE IF ~pf.ok THEN Fail(Err("InvalidNumber", "", 0, numberStr))
             ELSE Ok(pf.val, From(expr, i))

\* the scan of parseFactor for the matching closing parenthesis
RECURSIVE ScanParen(_, _, _)
ScanParen(expr, i, parenCount) ==
    IF i < Len(expr) /\ parenCount > 0
       THEN ScanParen(expr, i + 1,
                      CASE expr[i + 1] = "(" -> parenCount + 1
                        [] expr[i + 1] = ")" -> parenCount - 1
                        [] OTHER -> parenCount)
    ELSE [i |-> i, parenCount |-> parenCount]

\* parseFactor without the check for an empty inner expression
parseFactor_NoEmptyCheck(expr) ==
    IF Len(expr) = 0 THEN Fail(Err("UnexpectedEnd", "", 0, <<>>))
    ELSE IF expr[1] = "("
       THEN LET sc        == ScanParen(expr, 1, 1)
                innerExpr == SubSeq(expr, 2, sc.i - 1)
                inner     == parseExpression(innerExpr)
            IN  IF sc.parenCount > 0 THEN Fail(Err("MissingCloseParen", "", 0, <<>>))
                ELSE IF inner.err # NoErr THEN Fail(inner.err)
                ELSE Ok(inner.val, From(expr, sc.i))
    ELSE parseNumber(expr)

\* GroupValue moving the position of an inner error to the outer string
GroupValue_Rebased(inner, rem) ==
    IF inner.err # NoErr THEN Fail([inner.err EXCEPT !.pos = @ + 1])
    ELSE Ok(inner.val, rem)

\* the end of the parenthesised branch: val of the inner expression, expr[i:]
GroupValue(inner, rem) ==
    IF inner.err # NoErr THEN Fail(inner.err)
    ELSE Ok(inner.val, rem)

\* the parenthesised branch of parseFactor after its scan, which ended at
\* index sc.i with sc.parenCount parentheses still open
Group(expr, sc) ==
    IF sc.parenCount > 0 THEN Fail(Err("MissingCloseParen", "", 0, <<>>))
    ELSE IF Len(SubSeq(expr, 2, sc.i - 1)) = 0
       THEN Fail(Err("EmptyParens", "", 0, <<>>))
    ELSE GroupValue(parseExpression(SubSeq(expr, 2, sc.i - 1)), From(expr, sc.i))

parseFactor(expr) ==
    IF Len(expr) = 0 THEN Fail(Err("UnexpectedEnd", "", 0, <<>>))
    ELSE IF expr[1] = "(" THEN Group(expr, ScanParen(expr, 1, 1))
    ELSE parseNumber(expr)

\* return -val, remaining, err
Negated(r) ==
    [val |-> Neg(r.val), rem |-> r.rem, err |-> r.err]

\* parseUnary accepting one sign only
parseUnary_OneSign(expr) ==
    IF Len(expr) = 0 THEN Fail(Err("UnexpectedEnd", "", 0, <<>>))
    ELSE IF expr[1] = "+" THEN parseFactor(Tail(expr))
    ELSE IF expr[1] = "-" THEN Negated(parseFactor(Tail(expr)))
    ELSE parseFactor(expr)

parseUnary(expr) ==
    IF Len(expr) = 0 THEN Fail(Err("UnexpectedEnd", "", 0, <<>>))
    ELSE IF expr[1] = "+" THEN parseUnary(Tail(expr))
    ELSE IF expr[1] = "-" THEN Negated(parseUnary(Tail(expr)))
    ELSE parseFactor(expr)

\* MulDivStep rejecting the positive zero only
MulDivStep_PositiveZero(left, op, r) ==
    IF r.err # NoErr THEN Fail(r.err)
    ELSE IF op = "*" THEN MulDivLoop(Mul(left, r.val), r.rem)
    ELSE IF IsZero(r.val) /\ r.val.s = 0
       THEN Fail(Err("DivisionByZero", "", 0, <<>>))
    ELSE MulDivLoop(Quo(left, r.val), r.rem)

\* one turn of the loop of parseMulDiv once its right operand r is parsed
MulDivStep(left, op, r) ==
    IF r.err # NoErr THEN Fail(r.err)
    ELSE IF op = "*" THEN MulDivLoop(Mul(left, r.val), r.rem)
    ELSE IF IsZero(r.val) THEN Fail(Err("DivisionByZero", "", 0, <<>>))
    ELSE MulDivLoop(Quo(left, r.val), r.rem)

\* MulDivLoop with + and - handled in the same loop as * and /
MulDivLoop_Flat(left, remaining) ==
    IF Len(remaining) = 0 \/ remaining[1] \notin {"+", "-", "*", "/"}
       THEN Ok(left, remaining)
    ELSE LET op   == remaining[1]
             rest == Tail(remaining)
             r    == parseUnary(rest)
         IN  IF Len(rest) = 0 THEN Fail(Err("TrailingOperator", op, 0, <<>>))
             ELSE IF r.err # NoErr THEN Fail(r.err)
             ELSE IF op = "+" THEN MulDivLoop(Add(left, r.val), r.rem)
             ELSE IF op = "-" THEN MulDivLoop(Sub(left, r.val), r.rem)
             ELSE MulDivStep(left, op, r)

\* the for loop of parseMulDiv
MulDivLoop(left, remaining) ==
    IF Len(remaining) = 0 \/ remaining[1] \notin {"*", "/"} THEN Ok(left, remaining)
    ELSE IF Len(Tail(remaining)) = 0
       THEN Fail(Err("TrailingOperator", remaining[1], 0, <<>>))
    ELSE MulDivStep(left, remaining[1], parseUnary(Tail(remaining)))

\* parseMulDiv once its first operand l is parsed
MulDivFrom(l) ==
    IF l.err # NoErr THEN Fail(l.err)
    ELSE MulDivLoop(l.val, l.rem)

parseMulDiv(expr) ==
    MulDivFrom(parseUnary(expr))

\* one turn of the loop of parseAddSubWithRemaining once its right operand r
\* is parsed
AddSubStep(left, op, r) ==
    IF r.err # NoErr THEN Fail(r.err)
    ELSE IF op = "+" THEN AddSubLoop(Add(left, r.val), r.rem)
    ELSE AddSubLoop(Sub(left, r.val), r.rem)

\* AddSubLoop without the check for an operator at the end
AddSubLoop_NoEndCheck(left, remaining) ==
    IF Len(remaining) = 0 \/ remaining[1] \notin {"+", "-"} THEN Ok(left, remaining)
    ELSE AddSubStep(left, remaining[1], parseMulDiv(Tail(remaining)))

\* AddSubLoop taking everything after the operator as its right operand
AddSubLoop_Right(left, remaining) ==
    IF Len(remaining) = 0 \/ remaining[1] \notin {"+", "-"} THEN Ok(left, remaining)
    ELSE LET op   == remaining[1]
             rest == Tail(remaining)
             r    == parseAddSubWithRemaining(rest)
         IN  IF Len(rest) = 0 THEN Fail(Err("TrailingOperator", op, 0, <<>>))
             ELSE IF r.err # NoErr THEN Fail(r.err)
             ELSE IF op = "+" THEN Ok(Add(left, r.val), r.rem)
             ELSE Ok(Sub(left, r.val), r.rem)

\* the for loop of parseAddSubWithRemaining
AddSubLoop(left, remaining) ==
    IF Len(remaining) = 0 \/ remaining[1] \notin {"+", "-"} THEN Ok(left, remaining)
    ELSE IF Len(Tail(remaining)) = 0
       THEN Fail(Err("TrailingOperator", remaining[1], 0, <<>>))
    ELSE AddSubStep(left, remaining[1], parseMulDiv(Tail(remaining)))

\* parseAddSubWithRemaining once its first operand l is parsed
AddSubFrom(l) ==
    IF l.err # NoErr THEN Fail(l.err)
    ELSE AddSubLoop(l.val, l.rem)

parseAddSubWithRemaining(expr) ==
    AddSubFrom(parseMulDiv(expr))

\* Leftover returning the value of the prefix
Leftover_Ignored(expr, r) ==
    IF r.err # NoErr THEN Fail(r.err)
    ELSE Ok(r.val, <<>>)

\* parseExpression once r is parsed: the check for leftover characters
Leftover(expr, r) ==
    IF r.err # NoErr THEN Fail(r.err)
    ELSE IF Len(r.rem) > 0
       THEN Fail(Err("UnexpectedChar", r.rem[1], Len(expr) - Len(r.rem), <<>>))
    ELSE Ok(r.val, <<>>)

parseExpression(expr) ==
    Leftover(expr, parseAddSubWithRemaining(expr))

\* strings.ReplaceAll(s, " ", "")
removeSpaces(s) ==
    SelectSeq(s, LAMBDA c : c # " ")

\* evaluateExpression without its check for the empty string
EvaluateStripped_NoEmptyCheck(expr) ==
    parseExpression(expr)

\* evaluateExpression once the spaces are removed
EvaluateStripped(expr) ==
    IF expr = <<>> THEN Fail(Err("EmptyExpression", "", 0, <<>>))
    ELSE parseExpression(expr)

evaluateExpression(expr) ==
    EvaluateStripped(removeSpaces(expr))

(***************************************************************************)
(* formatResult: fmt.Sprintf("%.10g", result).                             *)
(***************************************************************************)
\* the first k digits of num/den (1 <= num/den < 10) and what is left over
RECURSIVE DigitsOf(_, _, _)
DigitsOf(num, den, k) ==
    IF k = 0 THEN [ds |-> <<>>, rest |-> num]
    ELSE LET t == DigitsOf((num % den) * 10, den, k - 1)
         IN  [ds |-> <<num \div den>> \o t.ds, rest |-> t.rest]

\* ds + 1 in the last place; a carry out of the first place is kept as 10
RECURSIVE Increment(_)
Increment(ds) ==
    IF Len(ds) = 0 THEN <<>>
    ELSE IF ds[Len(ds)] < 9 THEN [ds EXCEPT ![Len(ds)] = @ + 1]
    ELSE IF Len(ds) = 1 THEN <<10>>
    ELSE Increment(SubSeq(ds, 1, Len(ds) - 1)) \o <<0>>

RECURSIVE TrimZeros(_)
TrimZeros(ds) ==
    IF Len(ds) > 0 /\ ds[Len(ds)] = 0 THEN TrimZeros(SubSeq(ds, 1, Len(ds) - 1))
    ELSE ds

\* the decimal digits of a finite value rounded half-even to prec significant
\* digits, trailing zeros trimmed: the value is 0.d1d2...dnd * 10^dp
Decimal(v, prec) ==
    IF v.n = 0 THEN [d |-> <<>>, dp |-> 0]
    ELSE LET l   == Lg(v.n, v.d)
             num == IF l >= 0 THEN v.n ELSE v.n * Pow10(-l)
             den == IF l >= 0 THEN v.d * Pow10(l) ELSE v.d
             t   == DigitsOf(num, den, prec)
             \* t.rest is ten times the remainder after the last digit
             up  == \/ t.rest > 5 * den
                    \/ t.rest = 5 * den /\ t.ds[prec] % 2 = 1
             r   == IF up THEN Increment(t.ds) ELSE t.ds
         IN  IF r[1] = 10
                THEN [d |-> <<1>>, dp |-> l + v.e + 2]
             ELSE [d |-> TrimZeros(r), dp |-> l + v.e + 1]

RECURSIVE Zeros(_)
Zeros(k) ==
    IF k <= 0 THEN <<>> ELSE <<"0">> \o Zeros(k - 1)

DigitText(ds) ==
    [i \in 1..Len(ds) |-> DigitChars[ds[i] + 1]]

\* decimal text of a natural number
RECURSIVE NatText(_)
NatText(k) ==
    IF k < 10 THEN <<DigitChars[k + 1]>>
    ELSE NatText(k \div 10) \o <<DigitChars[(k % 10) + 1]>>

\* strconv's %e layout with prec digits after the point
FmtE(digs, prec) ==
    LET nd   == Len(digs.d)
        exp  == IF nd = 0 THEN 0 ELSE digs.dp - 1
        m    == IF nd < prec + 1 THEN nd ELSE prec + 1
        frac == IF prec > 0
                   THEN <<".">> \o DigitText(SubSeq(digs.d, 2, m)) \o Zeros(prec + 1 - (IF m < 1 THEN 1 ELSE m))
                ELSE <<>>
        ax   == IF exp < 0 THEN -exp ELSE exp
    IN  (IF nd = 0 THEN <<"0">> ELSE DigitText(<<digs.d[1]>>))
        \o frac
        \o <<"e", IF exp < 0 THEN "-" ELSE "+">>
        \o (IF ax < 10 THEN <<"0">> ELSE <<>>) \o NatText(ax)

\* strconv's %f layout with prec digits after the point
FmtF(digs, prec) ==
    LET nd == Len(digs.d)
        m  == IF nd < digs.dp THEN nd ELSE digs.dp
    IN  (IF digs.dp > 0 THEN DigitText(SubSeq(digs.d, 1, m)) \o Zeros(digs.dp - m)
                        ELSE <<"0">>)
        \o (IF prec > 0
               THEN <<".">> \o [i \in 1..prec |->
                                  IF digs.dp + i >= 1 /\ digs.dp + i <= nd
                                     THEN DigitChars[digs.d[digs.dp + i] + 1]
                                  ELSE "0"]
            ELSE <<>>)

\* strconv's %g layout with precision prec
FmtG(digs, prec) ==
    LET nd  == Len(digs.d)
        exp == digs.dp - 1
        eprec == IF prec > nd /\ nd >= digs.dp THEN nd ELSE prec
        pe  == IF prec > nd THEN nd ELSE prec
        pf  == IF prec > digs.dp THEN nd ELSE prec
    IN  IF exp < -4 \/ exp >= eprec THEN FmtE(digs, pe - 1)
        ELSE FmtF(digs, IF pf - digs.dp > 0 THEN pf - digs.dp ELSE 0)

formatResult(v) ==
    IF v.k = "nan" THEN <<"N", "a", "N">>
    ELSE IF v.k = "inf" THEN <<IF v.s = 1 THEN "-" ELSE "+", "I", "n", "f">>
    ELSE (IF v.s = 1 THEN <<"-">> ELSE <<>>) \o FmtG(Decimal(v, 10), 10)

(***************************************************************************)
(* handleCalculate.                                                        *)
(***************************************************************************)
\* the longest expression handleCalculate accepts
MaxExprLen == 500

\* validChars with one more character
validChars_Ampersand ==
    {"0", "1", "2", "3", "4", "5", "6", "7", "8", "9",
     "+", "-", "*", "/", ".", "(", ")", "e", "E", " ", "&"}

\* validChars of handleCalculate
validChars ==
    {"0", "1", "2", "3", "4", "5", "6", "7", "8", "9",
     "+", "-", "*", "/", ".", "(", ")", "e", "E", " "}

\* an IsError tool result
ToolError(kind, ch, err) ==
    [isError |-> TRUE, kind |-> kind, ch |-> ch, err |-> err, text |-> <<>>]

\* the character loop of handleCalculate: the first character that is not valid
FirstInvalid(expression) ==
    LET bad == {i \in 1..Len(expression) : expression[i] \notin validChars}
    IN  IF bad = {} THEN 0 ELSE CHOOSE i \in bad : \A j \in bad : i <= j

\* Answer without the check of the result for NaN
Answer_NoNaNCheck(r) ==
    IF r.err # NoErr THEN ToolError("CalculationError", "", r.err)
    ELSE [isError |-> FALSE, kind |-> "Result", ch |-> "", err |-> NoErr,
          text |-> formatResult(r.val)]

\* the end of handleCalculate: the tool result for what evaluateExpression
\* returned
Answer(r) ==
    IF r.err # NoErr THEN ToolError("CalculationError", "", r.err)
    ELSE IF IsNaN(r.val) THEN ToolError("NaN", "", NoErr)
    ELSE [isError |-> FALSE, kind |-> "Result", ch |-> "", err |-> NoErr,
          text |-> formatResult(r.val)]

\* the character loop of handleCalculate, which stopped at index i (0: no
\* invalid character), and what follows it
CheckedChars(expression, i) ==
    IF i # 0 THEN ToolError("InvalidCharacter", expression[i], NoErr)
    ELSE Answer(evaluateExpression(expression))

handleCalculate(expression) ==
    IF Len(expression) = 0 THEN ToolError("EmptyExpression", "", NoErr)
    ELSE IF Len(expression) > MaxExprLen THEN ToolError("TooLong", "", NoErr)
    ELSE CheckedChars(expression, FirstInvalid(expression))

(***************************************************************************)
(* The random_number tool: the three generators and handleRandomNumber.    *)
(* An outcome of the entropy source is "fail" (rand.Int returns an error)  *)
(* or a point of the draw space [0, maxInt): its first integer, the one at *)
(* a third, the one in the middle or its last.                             *)
(***************************************************************************)
DrawPoints ==
    {"zero", "third", "half", "top"}

EntropyOutcomes ==
    DrawPoints \cup {"fail"}

\* the integer rand.Int returns from [0, maxInt) at the point e
RandInt(e, maxInt) ==
    CASE e = "zero"    -> 0
      [] e = "third"   -> maxInt \div 3
      [] e = "half"    -> maxInt \div 2
      [] e = "top"     -> maxInt - 1

\* precision of generateUniform: 4 decimal places
precision == 10000

\* what a generator returns, and the reads of rand.Reader it made
GenOk(val, draws) ==
    [val |-> val, err |-> "none", draws |-> draws]

\* return 0, err
GenFail(draws) ==
    [val |-> FZero(0), err |-> "entropy", draws |-> draws]

\* the size of the draw space: maxInt, raised to 1 when it is not positive
DrawSpace(maxInt) ==
    IF maxInt <= 0 THEN 1 ELSE maxInt

\* generateUniform(min, max) when the entropy source gives e
generateUniform(min, max, e) ==
    IF e = "fail" THEN GenFail(1)
    ELSE GenOk(Add(min,
                   Quo(FromInt(RandInt(e, DrawSpace(Int64(Mul(Sub(max, min),
                                                             FromInt(precision)))))),
                       FromInt(precision))),
               1)

\* the values generateUniform(0, 1) returns at the four draw points
UnitDraw(e) ==
    generateUniform(Dec(0, 0), Dec(1, 0), e).val

\* math.Sqrt(-2*math.Log(u1)) at the four unit draws, to three digits
SqrtNeg2Log(u1) ==
    CASE u1 = UnitDraw("zero")  -> FInf(0)
      [] u1 = UnitDraw("third") -> Dec(148, -2)
      [] u1 = UnitDraw("half")  -> Dec(118, -2)
      [] u1 = UnitDraw("top")   -> Dec(141, -4)

\* math.Cos(2*math.Pi*u2) at the four unit draws, to three digits
CosTwoPi(u2) ==
    CASE u2 = UnitDraw("zero")  -> Dec(1, 0)
      [] u2 = UnitDraw("third") -> Neg(Dec(5, -1))
      [] u2 = UnitDraw("half")  -> Neg(Dec(1, 0))
      [] u2 = UnitDraw("top")   -> Dec(1, 0)

\* -math.Log(1-u) at the four unit draws, to three digits
NegLog1m(u) ==
    CASE u = UnitDraw("zero")  -> FZero(1)
      [] u = UnitDraw("third") -> Dec(405, -3)
      [] u = UnitDraw("half")  -> Dec(693, -3)
      [] u = UnitDraw("top")   -> Dec(921, -2)

\* the clamp of generateNormal: result < min, then result > max
ClampBoth(min, max, res) ==
    IF Lt(res, min) THEN (IF Gt(min, max) THEN max ELSE min)
    ELSE IF Gt(res, max) THEN max
    ELSE res

\* generateNormal going on with the zero a failed second draw returned
NormalFrom_SecondDrawIgnored(min, max, u1, u2) ==
    IF u1.err # "none" THEN GenFail(1)
    ELSE GenOk(ClampBoth(min, max,
                         Add(Quo(Add(min, max), Dec(2, 0)),
                             Mul(Mul(SqrtNeg2Log(u1.val), CosTwoPi(u2.val)),
                                 Quo(Sub(max, min), Dec(6, 0))))),
               2)

\* generateNormal once both uniform values are drawn
NormalFrom(min, max, u1, u2) ==
    IF u1.err # "none" THEN GenFail(1)
    ELSE IF u2.err # "none" THEN GenFail(2)
    ELSE GenOk(ClampBoth(min, max,
                         Add(Quo(Add(min, max), Dec(2, 0)),
                             Mul(Mul(SqrtNeg2Log(u1.val), CosTwoPi(u2.val)),
                                 Quo(Sub(max, min), Dec(6, 0))))),
               2)

\* generateNormal(min, max) when the entropy source gives es[1], then es[2]
generateNormal(min, max, es) ==
    NormalFrom(min, max,
               generateUniform(Dec(0, 0), Dec(1, 0), es[1]),
               generateUniform(Dec(0, 0), Dec(1, 0), es[2]))

\* the clamp of generateExponential: result > max
ClampAbove(max, res) ==
    IF Gt(res, max) THEN max ELSE res

\* generateExponential once the uniform value is drawn
ExponentialFrom(min, max, u) ==
    IF u.err # "none" THEN GenFail(1)
    ELSE GenOk(ClampAbove(max,
                          Add(min, Quo(NegLog1m(u.val),
                                       Quo(Dec(3, 0), Sub(max, min))))),
               1)

\* generateExponential(min, max) when the entropy source gives e
generateExponential(min, max, e) ==
    ExponentialFrom(min, max, generateUniform(Dec(0, 0), Dec(1, 0), e))

\* an argument of the request that was given, and one that was left out
Given(v) ==
    [set |-> TRUE, val |-> v]

Absent(v) ==
    [set |-> FALSE, val |-> v]

\* minm := 1.0 and maxi := 100.0 unless the request gives them
BoundOf(arg, default) ==
    IF arg.set THEN arg.val ELSE default

\* the distribution argument is given and not empty
HasDistribution(req) ==
    req.dist.set /\ req.dist.val # ""

\* an elicitation in which every accept names the distribution
Elicited_AcceptAlwaysNames(el) ==
    IF el.err THEN "uniform"
    ELSE IF el.action = "accept" THEN el.dist
    ELSE "uniform"

\* the distribution an elicitation outcome resolves to
Elicited(el) ==
    IF el.err THEN "uniform"
    ELSE IF el.action = "accept"
       THEN (IF el.isString THEN el.dist ELSE "uniform")
    ELSE "uniform"

\* the distribution handleRandomNumber works with
Distribution(req) ==
    IF HasDistribution(req) THEN req.dist.val
    ELSE IF req.session THEN Elicited(req.elicit)
    ELSE "uniform"

SupportedDistributions ==
    {"uniform", "normal", "exponential"}

\* the switch over the distribution
Sample(distribution, min, max, es) ==
    CASE distribution = "uniform"     -> generateUniform(min, max, es[1])
      [] distribution = "normal"      -> generateNormal(min, max, es)
      [] distribution = "exponential" -> generateExponential(min, max, es[1])

\* a tool result of handleRandomNumber: an error of some kind, or the
\* arguments of the result text; elicited: Elicit was called; draws: the
\* reads of rand.Reader
RandomReply(isError, kind, distribution, val, draws, elicited) ==
    [isError |-> isError, kind |-> kind, distribution |-> distribution,
     val |-> val, draws |-> draws, elicited |-> elicited]

\* the end of handleRandomNumber: the tool result for what the generator
\* returned
Sampled(distribution, elicited, g) ==
    IF g.err # "none"
       THEN RandomReply(TRUE, "GenerationFailed", "", FZero(0), g.draws, elicited)
    ELSE RandomReply(FALSE, "Result", distribution, g.val, g.draws, elicited)

\* handleRandomNumber with a range test that lets min = max through
Resolved_StrictRange(minm, maxi, distribution, elicited, es) ==
    IF distribution \notin SupportedDistributions
       THEN RandomReply(TRUE, "UnknownDistribution", "", FZero(0), 0, elicited)
    ELSE IF Gt(minm, maxi)
       THEN RandomReply(TRUE, "InvalidRange", "", FZero(0), 0, elicited)
    ELSE Sampled(distribution, elicited, Sample(distribution, minm, maxi, es))

\* handleRandomNumber once the bounds and the distribution are known
Resolved(minm, maxi, distribution, elicited, es) ==
    IF distribution \notin SupportedDistributions
       THEN RandomReply(TRUE, "UnknownDistribution", "", FZero(0), 0, elicited)
    ELSE IF Ge(minm, maxi)
       THEN RandomReply(TRUE, "InvalidRange", "", FZero(0), 0, elicited)
    ELSE Sampled(distribution, elicited, Sample(distribution, minm, maxi, es))

handleRandomNumber(req) ==
    Resolved(BoundOf(req.min, Dec(1, 0)), BoundOf(req.max, Dec(100, 0)),
             Distribution(req), ~HasDistribution(req) /\ req.session,
             req.entropy)

(***************************************************************************)
(* The server of version 0.5.0: its evaluator splits the expression at its *)
(* last operator and evaluates the two parts.                              *)
(***************************************************************************)
\* what the 0.5.0 evaluator returns
ReturnV5(val, err) ==
    [val |-> val, err |-> err]

\* parseFloat once strconv.ParseFloat has returned pf
ParsedV5(s, pf) ==
    IF pf.ok THEN ReturnV5(pf.val, NoErr)
    ELSE ReturnV5(pf.val, Err("ParseFloat", "", 0, s))

parseFloatV5(s) ==
    IF s = <<>> THEN ReturnV5(FZero(0), Err("EmptyNumber", "", 0, <<>>))
    ELSE ParsedV5(s, ParseFloat(s))

\* the loop of evaluateExpression from index i down (indices from 1): the
\* index of the last operator, a sign at the very beginning not counted; 0
\* when there is none
RECURSIVE FindOperator(_, _)
FindOperator(expr, i) ==
    IF i < 1 THEN 0
    ELSE IF expr[i] \in {"+", "-"} /\ i > 1 THEN i
    ELSE IF expr[i] \in {"*", "/"} THEN i
    ELSE FindOperator(expr, i - 1)

\* the switch over the operator once both parts are evaluated
OperateV5(op, leftVal, rightVal) ==
    IF leftVal.err # NoErr THEN ReturnV5(FZero(0), leftVal.err)
    ELSE IF rightVal.err # NoErr THEN ReturnV5(FZero(0), rightVal.err)
    ELSE CASE op = "+" -> ReturnV5(Add(leftVal.val, rightVal.val), NoErr)
           [] op = "-" -> ReturnV5(Sub(leftVal.val, rightVal.val), NoErr)
           [] op = "*" -> ReturnV5(Mul(leftVal.val, rightVal.val), NoErr)
           [] op = "/" -> IF IsZero(rightVal.val)
                             THEN ReturnV5(FZero(0), Err("DivisionByZero", "", 0, <<>>))
                          ELSE ReturnV5(Quo(leftVal.val, rightVal.val), NoErr)

RECURSIVE evaluateExpressionV5(_)

\* evaluateExpression once the operator is looked for: opIndex is its index,
\* 0 when none was found
SplitAt(expr, opIndex) ==
    IF opIndex = 0 THEN parseFloatV5(expr)
    ELSE IF opIndex = 1 \/ opIndex = Len(expr)
       THEN ReturnV5(FZero(0), Err("MissingOperand", "", 0, <<>>))
    ELSE OperateV5(expr[opIndex],
                   evaluateExpressionV5(SubSeq(expr, 1, opIndex - 1)),
                   evaluateExpressionV5(SubSeq(expr, opIndex + 1, Len(expr))))

\* evaluateExpression once the spaces are removed
SplitStripped(expr) ==
    SplitAt(expr, FindOperator(expr, Len(expr)))

evaluateExpressionV5(expr) ==
    SplitStripped(removeSpaces(expr))

\* the end of handleCalculate: the tool result for what evaluateExpression
\* returned
AnswerV5(r) ==
    IF r.err # NoErr THEN ToolError("CalculationError", "", r.err)
    ELSE [isError |-> FALSE, kind |-> "Result", ch |-> "", err |-> NoErr,
          text |-> formatResult(r.val)]

\* handleCalculate of 0.5.0; the request carries an expression or none
handleCalculateV5(request) ==
    IF ~request.given THEN ToolError("MissingArgument", "", NoErr)
    ELSE AnswerV5(evaluateExpressionV5(request.expression))

(***************************************************************************)
(* The server of version 0.2.0: a tokenizer and a parser over its tokens.  *)
(* A token is kept with the position of the tokenizer after it, so that a  *)
(* token with its position is the state of the Parser (current and         *)
(* tokenizer.pos).                                                         *)
(***************************************************************************)
Token(type, value, pos) ==
    [type |-> type, value |-> value, pos |-> pos]

\* the loop of NextToken that skips whitespace
RECURSIVE SkipSpace(_, _)
SkipSpace(inp, pos) ==
    IF pos < Len(inp) /\ inp[pos + 1] = " " THEN SkipSpace(inp, pos + 1)
    ELSE pos

\* the loop of readNumber: digits and at most one point
RECURSIVE NumberEnd(_, _, _)
NumberEnd(inp, pos, hasDot) ==
    IF pos >= Len(inp) THEN pos
    ELSE IF IsDigit(inp[pos + 1]) THEN NumberEnd(inp, pos + 1, hasDot)
    ELSE IF inp[pos + 1] = "." /\ ~hasDot THEN NumberEnd(inp, pos + 1, TRUE)
    ELSE pos

\* readNumber once the loop has stopped at index end
NumberToken(inp, start, end) ==
    Token("Number", SubSeq(inp, start + 1, end), end)

readNumber(inp, start) ==
    NumberToken(inp, start, NumberEnd(inp, start, FALSE))

isStartOfNumber(inp, pos) ==
    pos < Len(inp) /\ (IsDigit(inp[pos + 1]) \/ inp[pos + 1] = ".")

\* NextToken once the whitespace is skipped
TokenAt(inp, pos) ==
    IF pos >= Len(inp) THEN Token("EOF", <<>>, pos)
    ELSE IF inp[pos + 1] \in {"+", "-", "*", "/", "(", ")"}
       THEN Token(inp[pos + 1], <<inp[pos + 1]>>, pos + 1)
    ELSE IF isStartOfNumber(inp, pos) THEN readNumber(inp, pos)
    ELSE Token("EOF", <<>>, pos + 1)

NextToken(inp, pos) ==
    TokenAt(inp, SkipSpace(inp, pos))

\* Parser.advance from the state p
advance(inp, p) ==
    NextToken(inp, p.pos)

\* what a function of the Parser returns, and the state it leaves
FailV2(err, p) ==
    [val |-> FZero(0), err |-> err, p |-> p]

OkV2(val, p) ==
    [val |-> val, err |-> NoErr, p |-> p]

RECURSIVE parseFactorV2(_, _)
RECURSIVE parseTermV2(_, _)
RECURSIVE TermLoop(_, _, _)
RECURSIVE parseExpressionV2(_, _)
RECURSIVE ExprLoop(_, _, _)

\* the number branch of parseFactor: pf is what strconv.ParseFloat returned
NumberValue(inp, p, pf) ==
    IF ~pf.ok THEN FailV2(Err("InvalidNumber", "", 0, p.value), advance(inp, p))
    ELSE OkV2(pf.val, advance(inp, p))

\* the parenthesis branch of parseFactor once the inner expression r is parsed
GroupV2(inp, r) ==
    IF r.err # NoErr THEN FailV2(r.err, r.p)
    ELSE IF r.p.type # ")" THEN FailV2(Err("ExpectedCloseParen", "", 0, <<>>), r.p)
    ELSE OkV2(r.val, advance(inp, r.p))

\* the minus branch of parseFactor once its operand r is parsed
NegatedV2(r) ==
    IF r.err # NoErr THEN FailV2(r.err, r.p)
    ELSE OkV2(Neg(r.val), r.p)

parseFactorV2(inp, p) ==
    IF p.type = "Number" THEN NumberValue(inp, p, ParseFloat(p.value))
    ELSE IF p.type = "(" THEN GroupV2(inp, parseExpressionV2(inp, advance(inp, p)))
    ELSE IF p.type = "-" THEN NegatedV2(parseFactorV2(inp, advance(inp, p)))
    ELSE FailV2(Err("UnexpectedToken", "", 0, p.value), p)

\* the factor r multiplied with the factor next that follows it without an
\* operator
Joined(r, next) ==
    IF next.err # NoErr THEN next
    ELSE OkV2(Mul(r.val, next.val), next.p)

\* TermStep multiplying a factor that follows r without an operator into r
\* before r is applied to left
TermStep_ImplicitBindsTighter(inp, left, op, r) ==
    LET j == IF r.err = NoErr /\ r.p.type \in {"Number", "("}
                THEN Joined(r, parseFactorV2(inp, r.p))
             ELSE r
    IN  IF j.err # NoErr THEN FailV2(j.err, j.p)
        ELSE IF op = "/"
           THEN (IF IsZero(j.val) THEN FailV2(Err("DivisionByZero", "", 0, <<>>), j.p)
                 ELSE TermLoop(inp, Quo(left, j.val), j.p))
        ELSE TermLoop(inp, Mul(left, j.val), j.p)

\* one turn of the loop of parseTerm once the factor r is parsed; op is "*"
\* or "/", or "implicit" for a factor that follows without an operator
TermStep(inp, left, op, r) ==
    IF r.err # NoErr THEN FailV2(r.err, r.p)
    ELSE IF op = "/"
       THEN (IF IsZero(r.val) THEN FailV2(Err("DivisionByZero", "", 0, <<>>), r.p)
             ELSE TermLoop(inp, Quo(left, r.val), r.p))
    ELSE TermLoop(inp, Mul(left, r.val), r.p)

\* the for loop of parseTerm
TermLoop(inp, left, p) ==
    IF p.type \in {"*", "/"}
       THEN TermStep(inp, left, p.type, parseFactorV2(inp, advance(inp, p)))
    ELSE IF p.type \in {"Number", "("}
       THEN TermStep(inp, left, "implicit", parseFactorV2(inp, p))
    ELSE OkV2(left, p)

\* parseTerm once its first factor l is parsed
TermFrom(inp, l) ==
    IF l.err # NoErr THEN FailV2(l.err, l.p)
    ELSE TermLoop(inp, l.val, l.p)

parseTermV2(inp, p) ==
    TermFrom(inp, parseFactorV2(inp, p))

\* one turn of the loop of parseExpression once the term r is parsed
ExprStep(inp, left, op, r) ==
    IF r.err # NoErr THEN FailV2(r.err, r.p)
    ELSE IF op = "+" THEN ExprLoop(inp, Add(left, r.val), r.p)
    ELSE ExprLoop(inp, Sub(left, r.val), r.p)

\* the for loop of parseExpression
ExprLoop(inp, left, p) ==
    IF p.type \in {"+", "-"}
       THEN ExprStep(inp, left, p.type, parseTermV2(inp, advance(inp, p)))
    ELSE OkV2(left, p)

\* parseExpression once its first term l is parsed
ExprFrom(inp, l) ==
    IF l.err # NoErr THEN FailV2(l.err, l.p)
    ELSE ExprLoop(inp, l.val, l.p)

parseExpressionV2(inp, p) ==
    ExprFrom(inp, parseTermV2(inp, p))

\* Parser.Parse once the expression r is parsed
Parse(r) ==
    IF r.err # NoErr THEN [val |-> FZero(0), err |-> r.err]
    ELSE IF r.p.type # "EOF"
       THEN [val |-> FZero(0), err |-> Err("UnexpectedToken", "", 0, r.p.value)]
    ELSE [val |-> r.val, err |-> NoErr]

\* NewParser(expr) and Parse
evaluateExpressionV2(expr) ==
    Parse(parseExpressionV2(expr, NextToken(expr, 0)))

\* strings.TrimSpace
RECURSIVE TrimSpace(_)
TrimSpace(s) ==
    IF Len(s) > 0 /\ s[1] = " " THEN TrimSpace(Tail(s))
    ELSE IF Len(s) > 0 /\ s[Len(s)] = " " THEN TrimSpace(SubSeq(s, 1, Len(s) - 1))
    ELSE s

\* a tool result of the 0.2.0 handleCalculate: an error, or the verb
\* formatResult formats the value with
ReplyV2(isError, kind, err, verb, val) ==
    [isError |-> isError, kind |-> kind, err |-> err, verb |-> verb, val |-> val]

\* formatResult: %.0f for a value equal to its int64, %g otherwise
FormatVerb(v) ==
    IF v.k = "fin" /\ Cmp(v, FromInt(Int64(v))) = 0 THEN "%.0f" ELSE "%g"

\* the end of handleCalculate: the tool result for what evaluateExpression
\* returned
AnswerV2(r) ==
    IF r.err # NoErr THEN ReplyV2(TRUE, "EvaluationError", r.err, "", FZero(0))
    ELSE ReplyV2(FALSE, "Result", NoErr, FormatVerb(r.val), r.val)

\* handleCalculate after strings.TrimSpace
TrimmedV2(expression) ==
    IF expression = <<>> THEN ReplyV2(TRUE, "EmptyExpression", NoErr, "", FZero(0))
    ELSE AnswerV2(evaluateExpressionV2(expression))

\* handleCalculate of 0.2.0; the request carries an expression or none
handleCalculateV2(request) ==
    IF ~request.given THEN ReplyV2(TRUE, "MissingArgument", NoErr, "", FZero(0))
    ELSE TrimmedV2(TrimSpace(request.expression))

(***************************************************************************)
(* The calculator tool of the hand-written server: CalculatorHandler.  An  *)
(* argument of the call is absent, or present with the Go type of its      *)
(* value: str holds a string, num a float64, int an int.                   *)
(***************************************************************************)
NoArg ==
    [present |-> FALSE, type |-> "none", str |-> "", num |-> FZero(0), int |-> 0]

StringArg(s) ==
    [present |-> TRUE, type |-> "string", str |-> s, num |-> FZero(0), int |-> 0]

FloatArg(v) ==
    [present |-> TRUE, type |-> "float64", str |-> "", num |-> v, int |-> 0]

IntArg(k) ==
    [present |-> TRUE, type |-> "int", str |-> "", num |-> FZero(0), int |-> k]

\* a value of another type: a bool, a nil, a map
OtherArg(type) ==
    [present |-> TRUE, type |-> type, str |-> "", num |-> FZero(0), int |-> 0]

\* an IsError response with its message, and the Go error returned with it
CalcError(kind) ==
    [isError |-> TRUE, kind |-> kind, text |-> <<>>, err |-> "nil"]

\* the successful response: the result formatted with %.10g
CalcResult(res) ==
    [isError |-> FALSE, kind |-> "Result", text |-> formatResult(res), err |-> "nil"]

\* the type switch over a number argument: float64, or int converted
NumberOf(arg) ==
    IF arg.type = "int" THEN FromInt(arg.int) ELSE arg.num

\* the switch over the operation without the test of b in its divide case
Perform_NoZeroCheck(operation, a, b) ==
    CASE operation = "add"      -> CalcResult(Add(a, b))
      [] operation = "subtract" -> CalcResult(Sub(a, b))
      [] operation = "multiply" -> CalcResult(Mul(a, b))
      [] operation = "divide"   -> CalcResult(Quo(a, b))
      [] OTHER                  -> CalcError("UnsupportedOperation")

\* the switch over the operation
Perform(operation, a, b) ==
    CASE operation = "add"      -> CalcResult(Add(a, b))
      [] operation = "subtract" -> CalcResult(Sub(a, b))
      [] operation = "multiply" -> CalcResult(Mul(a, b))
      [] operation = "divide"   -> IF IsZero(b) THEN CalcError("DivisionByZero")
                                   ELSE CalcResult(Quo(a, b))
      [] OTHER                  -> CalcError("UnsupportedOperation")

CalculatorHandler(args) ==
    IF ~args.operation.present THEN CalcError("OperationRequired")
    ELSE IF args.operation.type # "string" THEN CalcError("OperationNotString")
    ELSE IF ~args.a.present THEN CalcError("ARequired")
    ELSE IF args.a.type \notin {"float64", "int"} THEN CalcError("ANotNumber")
    ELSE IF ~args.b.present THEN CalcError("BRequired")
    ELSE IF args.b.type \notin {"float64", "int"} THEN CalcError("BNotNumber")
    ELSE Perform(args.operation.str, NumberOf(args.a), NumberOf(args.b))

(***************************************************************************)
(* float64 with its rounding.  The values generateUniform computes for     *)
(* wide ranges need all 53 bits of the mantissa, more than an integer of   *)
(* the model checker holds, so a natural number is written here as the     *)
(* sequence of its digits to the base 2^15, lowest first and without       *)
(* leading zeros, and a float64 other than 0 as (-1)^s * m * 2^x with m of *)
(* exactly 53 bits.  Values stay between 2^-1022 and 2^1023 in magnitude,  *)
(* so neither overflow nor subnormal numbers occur; the zero is the        *)
(* positive zero.                                                          *)
(***************************************************************************)
Low(n) ==
    n % 32768

High(n) ==
    n \div 32768

RECURSIVE BTrim(_)
BTrim(a) ==
    IF Len(a) > 0 /\ a[Len(a)] = 0 THEN BTrim(SubSeq(a, 1, Len(a) - 1)) ELSE a

BDigit(a, i) ==
    IF i <= Len(a) THEN a[i] ELSE 0

BRest(a) ==
    IF a = <<>> THEN <<>> ELSE Tail(a)

\* a + b + c for a carry c
RECURSIVE BAddC(_, _, _)
BAddC(a, b, c) ==
    IF a = <<>> /\ b = <<>> THEN (IF c = 0 THEN <<>> ELSE <<c>>)
    ELSE <<Low(BDigit(a, 1) + BDigit(b, 1) + c)>>
             \o BAddC(BRest(a), BRest(b), High(BDigit(a, 1) + BDigit(b, 1) + c))

BAdd(a, b) ==
    BAddC(a, b, 0)

\* a - b - c for a borrow c, where a >= b + c
RECURSIVE BSubB(_, _, _)
BSubB(a, b, c) ==
    IF a = <<>> THEN <<>>
    ELSE <<Low(a[1] - BDigit(b, 1) - c + 32768)>>
             \o BSubB(Tail(a), BRest(b), IF a[1] - BDigit(b, 1) - c < 0 THEN 1 ELSE 0)

BSub(a, b) ==
    BTrim(BSubB(a, b, 0))

\* -1, 0 or 1: a against b, from digit i down, for numbers of equal length
RECURSIVE BCmpFrom(_, _, _)
BCmpFrom(a, b, i) ==
    IF i = 0 THEN 0
    ELSE IF a[i] # b[i] THEN (IF a[i] > b[i] THEN 1 ELSE -1)
    ELSE BCmpFrom(a, b, i - 1)

BCmp(a, b) ==
    IF Len(a) # Len(b) THEN (IF Len(a) > Len(b) THEN 1 ELSE -1)
    ELSE BCmpFrom(a, b, Len(a))

\* a * k + c for a digit k and a carry c
RECURSIVE BMulDigit(_, _, _)
BMulDigit(a, k, c) ==
    IF a = <<>> THEN (IF c = 0 THEN <<>> ELSE <<c>>)
    ELSE <<Low(a[1] * k + c)>> \o BMulDigit(Tail(a), k, High(a[1] * k + c))

\* a * 2^(15 * k)
BShiftDigits(a, k) ==
    IF a = <<>> THEN <<>> ELSE [i \in 1..k |-> 0] \o a

RECURSIVE BMul(_, _)
BMul(a, b) ==
    IF b = <<>> THEN <<>>
    ELSE BAdd(BMulDigit(a, b[1], 0), BShiftDigits(BMul(a, Tail(b)), 1))

\* one step of the long division by d: h is the division of the higher digits
BDivStep(digit, h, d) ==
    [q |-> <<(h.r * 32768 + digit) \div d>> \o h.q, r |-> (h.r * 32768 + digit) % d]

\* quotient (not trimmed) and remainder of a by a d of at most 2^15
RECURSIVE BDiv(_, _)
BDiv(a, d) ==
    IF a = <<>> THEN [q |-> <<>>, r |-> 0]
    ELSE BDivStep(a[1], BDiv(Tail(a), d), d)

\* a * 2^k and a \div 2^k
BShl(a, k) ==
    BShiftDigits(BMulDigit(a, 2 ^ (k % 15), 0), k \div 15)

BShr(a, k) ==
    IF k \div 15 >= Len(a) THEN <<>>
    ELSE BTrim(BDiv(SubSeq(a, k \div 15 + 1, Len(a)), 2 ^ (k % 15)).q)

\* the number of bits of a, and its bit i, counted from 1 at the low end
BBits(a) ==
    IF a = <<>> THEN 0
    ELSE 15 * (Len(a) - 1) + CHOOSE k \in 1..15 : 2 ^ (k - 1) <= a[Len(a)] /\ a[Len(a)] < 2 ^ k

BBit(a, i) ==
    (BDigit(a, (i - 1) \div 15 + 1) \div 2 ^ ((i - 1) % 15)) % 2

RECURSIVE BFromNat(_)
BFromNat(n) ==
    IF n = 0 THEN <<>> ELSE <<Low(n)>> \o BFromNat(High(n))

\* the float64 (-1)^s * m * 2^x for an m that needs no rounding
Norm(s, m, x) ==
    IF m = <<>> THEN [s |-> 0, m |-> <<>>, x |-> 0]
    ELSE IF BBits(m) <= 53 THEN [s |-> s, m |-> BShl(m, 53 - BBits(m)), x |-> x - (53 - BBits(m))]
    ELSE [s |-> s, m |-> BShr(m, BBits(m) - 53), x |-> x + (BBits(m) - 53)]

\* kept, or kept + 1 when the bits dropped after it round up: half is the
\* first bit dropped, rest tells whether anything lies below it
RoundEven(kept, half, rest) ==
    IF half = 1 /\ (rest \/ BBit(kept, 1) = 1) THEN BAdd(kept, <<1>>) ELSE kept

\* the float64 nearest to (-1)^s * (m + f) * 2^x, ties to even, where the
\* fraction f < 1 is not 0 exactly if sticky; a sticky m has more than 53 bits
Round53(s, m, x, sticky) ==
    IF BBits(m) <= 53 THEN Norm(s, m, x)
    ELSE Norm(s,
              RoundEven(BShr(m, BBits(m) - 53), BBit(m, BBits(m) - 53),
                        sticky \/ BShl(BShr(m, BBits(m) - 54), BBits(m) - 54) # m),
              x + BBits(m) - 53)

\* the sum of a and b once both mantissas are written with the exponent x
AlignedSum(a, b, am, bm, x) ==
    IF a.s = b.s THEN Round53(a.s, BAdd(am, bm), x, FALSE)
    ELSE IF BCmp(am, bm) = 0 THEN Norm(0, <<>>, 0)
    ELSE IF BCmp(am, bm) > 0 THEN Round53(a.s, BSub(am, bm), x, FALSE)
    ELSE Round53(b.s, BSub(bm, am), x, FALSE)

Add64(a, b) ==
    IF a.m = <<>> THEN b
    ELSE IF b.m = <<>> THEN a
    ELSE AlignedSum(a, b, BShl(a.m, a.x - Min2(a.x, b.x)),
                    BShl(b.m, b.x - Min2(a.x, b.x)), Min2(a.x, b.x))

Neg64(a) ==
    IF a.m = <<>> THEN a ELSE [a EXCEPT !.s = 1 - @]

Sub64(a, b) ==
    Add64(a, Neg64(b))

Mul64(a, b) ==
    Round53(Xor(a.s, b.s), BMul(a.m, b.m), a.x + b.x, FALSE)

\* a / b from the division d of the mantissa of a, shifted left by 30 bits,
\* by the 15 leading bits of the mantissa of b
ShiftedQuo(a, b, d) ==
    Round53(Xor(a.s, b.s), BTrim(d.q), a.x - 30 - (b.x + 38), d.r # 0)

\* a / b for a divisor b that has at most 15 significant bits
Quo64(a, b) ==
    IF a.m = <<>> THEN a
    ELSE ShiftedQuo(a, b, BDiv(BShiftDigits(a.m, 2), BShr(b.m, 38)[1]))

\* a < b
Lt64(a, b) ==
    Sub64(a, b).s = 1

\* the integer part of |v|
Trunc(v) ==
    IF v.x >= 0 THEN BShl(v.m, v.x) ELSE BShr(v.m, -v.x)

\* float64(k) for an integer k >= 0
FromNat64(k) ==
    Round53(0, k, 0, FALSE)

\* an int64, as its sign and its magnitude
MinInt64 ==
    [s |-> 1, n |-> BShl(<<1>>, 63)]

MaxInt64 ==
    [s |-> 0, n |-> BSub(BShl(<<1>>, 63), <<1>>)]

\* int64(v).  Go leaves the conversion of a value that does not fit to the
\* implementation: amd64 gives the smallest int64, arm64 the nearest one.
Int64Of(v, arch) ==
    IF BBits(Trunc(v)) <= 63 THEN [s |-> v.s, n |-> Trunc(v)]
    ELSE IF arch = "amd64" \/ v.s = 1 THEN MinInt64
    ELSE MaxInt64

\* float64(precision)
Precision64 ==
    Norm(0, BFromNat(precision), 0)

\* maxInt, raised to 1 when it is not positive
DrawSpace64(maxInt) ==
    IF maxInt.s = 1 \/ maxInt.n = <<>> THEN <<1>> ELSE maxInt.n

\* rand.Int(rand.Reader, big.NewInt(maxInt)) at the draw point e
RandInt64(e, maxInt) ==
    CASE e = "zero"    -> <<>>
      [] e = "third"   -> BTrim(BDiv(maxInt, 3).q)
      [] e = "half"    -> BShr(maxInt, 1)
      [] e = "top"     -> BSub(maxInt, <<1>>)

\* int64(diff * float64(precision))
MaxInt(min, max, arch) ==
    Int64Of(Mul64(Sub64(max, min), Precision64), arch)

\* generateUniform(min, max) with the rounding of float64, when the entropy
\* source gives e on the architecture arch
generateUniform64(min, max, e, arch) ==
    IF e = "fail" THEN [val |-> Norm(0, <<>>, 0), err |-> "entropy"]
    ELSE [val |-> Add64(min, Quo64(FromNat64(RandInt64(e, DrawSpace64(MaxInt(min, max, arch)))),
                                   Precision64)),
          err |-> "none"]

(***************************************************************************)
(* The hand-written MCP server.  Its state is the initialized flag; calls   *)
(* counts the tool handlers run so far.  The params of a request are        *)
(* absent, a JSON value that is no object, or an object with the name and   *)
(* the arguments of a tool call; json.Unmarshal decodes an object, whatever *)
(* its fields, and fails on the other two.                                  *)
(***************************************************************************)
NewServer ==
    [initialized |-> FALSE, calls |-> 0]

NoParams ==
    [json |-> "absent", name |-> "", arguments |-> [operation |-> NoArg, a |-> NoArg, b |-> NoArg]]

BadParams ==
    [NoParams EXCEPT !.json = "string"]

ObjectParams(name, arguments) ==
    [json |-> "object", name |-> name, arguments |-> arguments]

\* err == nil of json.Unmarshal(req.Params, &v)
Decodes(params) ==
    params.json = "object"

JSONRPCRequest(id, method, params) ==
    [id |-> id, method |-> method, params |-> params]

\* the Result of a response: nothing, or what a handler produced
EmptyResult ==
    [kind |-> "none", tool |-> CalcError("none")]

InitializeResponse ==
    [kind |-> "InitializeResponse", tool |-> CalcError("none")]

ListToolsResponse ==
    [kind |-> "ListToolsResponse", tool |-> CalcError("none")]

CallToolResponse(tool) ==
    [kind |-> "CallToolResponse", tool |-> tool]

\* a response with an Error, and one with a Result
ErrorResponse(id, code, message) ==
    [id |-> id, code |-> code, message |-> message, result |-> EmptyResult]

ResultResponse(id, result) ==
    [id |-> id, code |-> "none", message |-> "", result |-> result]

\* what a handler of the server leaves: the server and the response
Handled(s, response) ==
    [server |-> s, response |-> response]

handleInitialize(s, req) ==
    IF ~Decodes(req.params)
       THEN Handled(s, ErrorResponse(req.id, "InvalidParams", "Invalid initialize parameters"))
    ELSE Handled([s EXCEPT !.initialized = TRUE], ResultResponse(req.id, InitializeResponse))

handleToolsList(s, req) ==
    IF ~s.initialized
       THEN Handled(s, ErrorResponse(req.id, "InternalError", "Server not initialized"))
    ELSE Handled(s, ResultResponse(req.id, ListToolsResponse))

\* the tools main registers
toolHandlers ==
    {"calculator"}

\* the end of handleToolsCall: the handler has returned the response tool
ToolOutcome(s, req, tool) ==
    IF tool.err # "nil"
       THEN Handled([s EXCEPT !.calls = @ + 1],
                    ErrorResponse(req.id, "InternalError", "Tool execution failed"))
    ELSE Handled([s EXCEPT !.calls = @ + 1], ResultResponse(req.id, CallToolResponse(tool)))

\* handleToolsCall without the test of the initialized flag
handleToolsCall_Unguarded(s, req) ==
    IF ~Decodes(req.params)
       THEN Handled(s, ErrorResponse(req.id, "InvalidParams", "Invalid tool call parameters"))
    ELSE IF req.params.name \notin toolHandlers
       THEN Handled(s, ErrorResponse(req.id, "MethodNotFound", "Unknown tool"))
    ELSE ToolOutcome(s, req, CalculatorHandler(req.params.arguments))

handleToolsCall(s, req) ==
    IF ~s.initialized
       THEN Handled(s, ErrorResponse(req.id, "InternalError", "Server not initialized"))
    ELSE IF ~Decodes(req.params)
       THEN Handled(s, ErrorResponse(req.id, "InvalidParams", "Invalid tool call parameters"))
    ELSE IF req.params.name \notin toolHandlers
       THEN Handled(s, ErrorResponse(req.id, "MethodNotFound", "Unknown tool"))
    ELSE ToolOutcome(s, req, CalculatorHandler(req.params.arguments))

\* HandleRequest that answers an unknown method without the ID of the request
HandleRequest_UnknownWithoutID(s, req) ==
    CASE req.method = "initialize" -> handleInitialize(s, req)
      [] req.method = "tools/list" -> handleToolsList(s, req)
      [] req.method = "tools/call" -> handleToolsCall(s, req)
      [] OTHER -> Handled(s, ErrorResponse("nil", "MethodNotFound", "Unknown method"))

HandleRequest(s, req) ==
    CASE req.method = "initialize" -> handleInitialize(s, req)
      [] req.method = "tools/list" -> handleToolsList(s, req)
      [] req.method = "tools/call" -> handleToolsCall(s, req)
      [] OTHER -> Handled(s, ErrorResponse(req.id, "MethodNotFound", "Unknown method"))

\* the response ServeStdio writes for a line it cannot decode
ParseErrorResponse ==
    ErrorResponse("nil", "ParseError", "Parse error")

\* the status writeJSONResponse sends with a response
StatusOf(response) ==
    CASE response.code = "none" -> 200
      [] response.code \in {"ParseError", "InvalidRequest", "InvalidParams"} -> 400
      [] response.code = "MethodNotFound" -> 404
      [] OTHER -> 500

\* an answer over HTTP: a status with a JSON-RPC response, or a plain text
HTTPAnswer(status, text, response) ==
    [status |-> status, text |-> text, response |-> response]

writeJSONResponse(response) ==
    HTTPAnswer(StatusOf(response), "", response)

\* where httpToolsList and httpToolsCall continue after reading the flag
AfterCheck_NoAutoInitialize(initialized) ==
    "decode"

AfterCheck(initialized) ==
    IF ~initialized THEN "set" ELSE "decode"

(***************************************************************************)
(* The calls.  An input is drawn, then evaluateExpression is applied to it *)
(* (as the unit test does) or handleCalculate is (as the tool call does).  *)
(***************************************************************************)
VARIABLES input, pc, result, response

vars == <<input, pc, result, response>>

\* the characters expressions are drawn from; "&" stands for every
\* character outside the evaluator's alphabet
Alphabet ==
    {"0", "2", ".", "e", "+", "-", "*", "/", "(", ")", " ", "&"}

\* the characters numeric text is drawn from
NumAlphabet ==
    {"1", ".", "e", "E", "+", "-"}

\* t is numeric text, well formed or not: each sign follows an exponent marker
NumericText(t) ==
    \A k \in 1..Len(t) :
        t[k] \in {"+", "-"} => k > 1 /\ t[k - 1] \in {"e", "E"}

BinOps ==
    {"+", "-", "*", "/"}

\* the operands of the three-operand expressions: 0..MaxOperand, signed or not
Operands ==
    {<<DigitChars[k + 1]>> : k \in 0..MaxOperand}
        \cup {<<"-", DigitChars[k + 1]>> : k \in 0..MaxOperand}

\* a o1 b o2 c, (a o1 b) o2 c and a o1 (b o2 c)
ArithInputs(a, b, c, o1, o2) ==
    {a \o <<o1>> \o b \o <<o2>> \o c,
     <<"(">> \o a \o <<o1>> \o b \o <<")", o2>> \o c,
     a \o <<o1, "(">> \o b \o <<o2>> \o c \o <<")">>}

\* literals with an exponent
ExponentLiterals ==
    {<<m, ec>> \o sg \o <<DigitChars[k + 1]>> :
        m \in {"1", "2"}, ec \in {"e", "E"},
        sg \in {<<>>, <<"+">>, <<"-">>}, k \in 0..MaxOperand}

\* a literal with an exponent as the left or the right operand of an operator
ExponentInputs(t, op, c) ==
    {t \o <<op>> \o c, c \o <<op>> \o t}

\* a literal whose product with 9 exceeds the largest float64
HugeLiteral ==
    <<"9", "e", "3", "0", "7">>

\* expressions over products that overflow to infinity: the product alone,
\* two of them under an operator, and the product times an operand
OverflowInputs(op, c) ==
    {HugeLiteral \o <<"*", "9">>,
     HugeLiteral \o <<"*", "9", op>> \o HugeLiteral \o <<"*", "9">>,
     HugeLiteral \o <<"*", "9", "*">> \o c}

\* the pair evaluateExpression returns
Returned(r) ==
    [val |-> r.val, err |-> r.err]

NoResult ==
    [val |-> FZero(0), err |-> NoErr]

NoResponse ==
    [isError |-> FALSE, kind |-> "none", ch |-> "", err |-> NoErr, text |-> <<>>]

Init ==
    /\ \/ \E k \in 0..MaxLen : input \in [1..k -> Alphabet]
       \/ \E k \in 0..MaxNumLen :
              input \in {t \in [1..k -> NumAlphabet] : NumericText(t)}
       \/ \E a \in Operands, b \in Operands, c \in Operands,
             o1 \in BinOps, o2 \in BinOps :
              input \in ArithInputs(a, b, c, o1, o2)
       \/ \E t \in ExponentLiterals, op \in BinOps, c \in Operands :
              input \in ExponentInputs(t, op, c)
       \/ \E op \in BinOps, c \in Operands :
              input \in OverflowInputs(op, c)
    /\ pc = "ready"
    /\ result = NoResult
    /\ response = NoResponse

Evaluate ==
    /\ pc = "ready"
    /\ result' = Returned(evaluateExpression(input))
    /\ pc' = "evaluated"
    /\ UNCHANGED <<input, response>>

Calculate ==
    /\ pc = "ready"
    /\ response' = handleCalculate(input)
    /\ pc' = "calculated"
    /\ UNCHANGED <<input, result>>

Next ==
    \/ Evaluate
    \/ Calculate

Spec ==
    Init /\ [][Next]_vars

(***************************************************************************)
(* The sampling calls.  A request and the outcomes of the entropy source   *)
(* are drawn; then the generator of the named distribution is called with  *)
(* the two bounds (as the unit test does), or handleRandomNumber is called *)
(* with the request (as the tool call does).                               *)
(***************************************************************************)
\* ranges whose width times the precision is an int64 the model can hold
ModerateRanges ==
    {<<Given(Dec(0, 0)), Given(Dec(100, 0))>>,
     <<Given(Dec(0, 0)), Given(Dec(1, 0))>>,
     <<Given(Neg(Dec(5, 0))), Given(Dec(5, 0))>>,
     <<Given(Dec(0, 0)), Given(Dec(5, -5))>>,
     <<Given(Dec(10, 0)), Given(Dec(5, 0))>>,
     <<Given(Dec(5, 0)), Given(Dec(5, 0))>>,
     <<Absent(FZero(0)), Absent(FZero(0))>>,
     <<Absent(FZero(0)), Given(Dec(200, 0))>>,
     <<Absent(FZero(0)), Given(Dec(5, -1))>>,
     <<Given(Dec(50, 0)), Absent(FZero(0))>>,
     <<Given(Dec(200, 0)), Absent(FZero(0))>>}

\* the widest ranges: max - min is beyond the largest float64
ExtremeRanges ==
    {<<Given(Neg(Dec(1, 308))), Given(Dec(1, 308))>>}

DistributionArgs ==
    {Absent(""), Given(""), Given("uniform"), Given("normal"),
     Given("exponential"), Given("bogus")}

\* the outcomes of Session.Elicit: an error, or a result with its action and
\* its content["distribution"]
Elicitations ==
    {[err |-> TRUE, action |-> "", isString |-> FALSE, dist |-> ""]}
        \cup {[err |-> FALSE, action |-> "accept", isString |-> TRUE, dist |-> d] :
                 d \in SupportedDistributions \cup {"bogus"}}
        \cup {[err |-> FALSE, action |-> a, isString |-> FALSE, dist |-> ""] :
                 a \in {"accept", "decline", "cancel", "other"}}

NoElicitation ==
    [err |-> FALSE, action |-> "", isString |-> FALSE, dist |-> ""]

RandomRequest(range, dist, session, elicit, es) ==
    [min |-> range[1], max |-> range[2], dist |-> dist, session |-> session,
     elicit |-> elicit, entropy |-> es]

NoSample ==
    [val |-> FZero(0), err |-> "none", draws |-> 0]

NoReply ==
    RandomReply(FALSE, "none", "", FZero(0), 0, FALSE)

InitRandom ==
    /\ \E range \in ModerateRanges \cup ExtremeRanges, dist \in DistributionArgs,
          session \in BOOLEAN, elicit \in Elicitations,
          e1 \in EntropyOutcomes, e2 \in EntropyOutcomes :
           /\ input = RandomRequest(range, dist, session,
                                    IF session THEN elicit ELSE NoElicitation,
                                    <<e1, e2>>)
           /\ range \in ExtremeRanges => Distribution(input) # "uniform"
    /\ pc = "ready"
    /\ result = NoSample
    /\ response = NoReply

\* a generator is called with the two bounds of the request
CallGenerator ==
    /\ pc = "ready"
    /\ input.min.set /\ input.max.set
    /\ input.dist.set /\ input.dist.val \in SupportedDistributions
    /\ result' = Sample(input.dist.val, input.min.val, input.max.val, input.entropy)
    /\ pc' = "generated"
    /\ UNCHANGED <<input, response>>

RandomNumber ==
    /\ pc = "ready"
    /\ response' = handleRandomNumber(input)
    /\ pc' = "answered"
    /\ UNCHANGED <<input, result>>

NextRandom ==
    \/ CallGenerator
    \/ RandomNumber

SpecRandom ==
    InitRandom /\ [][NextRandom]_vars

(***************************************************************************)
(* A session: the server answers a sequence of tool calls one after the    *)
(* other.  input is the sequence of calls, result the outcomes of the      *)
(* calls served so far, response the reads of rand.Reader made so far: the *)
(* entropy source is the only thing a call leaves behind, the program has  *)
(* no package-level variable.                                              *)
(***************************************************************************)
\* the longest session
MaxCalls == 3

SessionExpressions ==
    {<<"1", "+", "2">>, <<"2", "*", "3">>, <<"1", "/", "0">>, <<"(">>,
     <<"2", " ", "3">>}

SessionEntropy ==
    {<<"half", "half">>, <<"fail", "half">>}

EvaluateCall(expr) ==
    [op |-> "evaluate", expr |-> expr, dist |-> "", entropy |-> <<>>]

SampleCall(dist, es) ==
    [op |-> "sample", expr |-> <<>>, dist |-> dist, entropy |-> es]

SessionCalls ==
    {EvaluateCall(expr) : expr \in SessionExpressions}
        \cup {SampleCall(d, es) : d \in SupportedDistributions, es \in SessionEntropy}

InitSession ==
    /\ input \in UNION {[1..n -> SessionCalls] : n \in 1..MaxCalls}
    /\ pc = "serving"
    /\ result = <<>>
    /\ response = [draws |-> 0]

\* the call the server answers next
NextCall ==
    input[Len(result) + 1]

Served ==
    IF Len(result) + 1 = Len(input) THEN "done" ELSE "serving"

\* an evaluation that adds to what the call before it left in a shared
\* accumulator
ServeEvaluate_SharedAccumulator ==
    /\ pc = "serving"
    /\ NextCall.op = "evaluate"
    /\ LET fresh == Returned(evaluateExpression(NextCall.expr))
       IN  result' = Append(result,
                            IF result = <<>> THEN fresh
                            ELSE [fresh EXCEPT !.val = Add(result[Len(result)].val,
                                                           fresh.val)])
    /\ pc' = Served
    /\ UNCHANGED <<input, response>>

\* a calculate call: the expression is evaluated
ServeEvaluate ==
    /\ pc = "serving"
    /\ NextCall.op = "evaluate"
    /\ result' = Append(result, Returned(evaluateExpression(NextCall.expr)))
    /\ pc' = Served
    /\ UNCHANGED <<input, response>>

\* what a sampling call returns, and the entropy source after it
Drawn(g) ==
    /\ result' = Append(result, g)
    /\ response' = [draws |-> response.draws + g.draws]

\* a random_number call: the generator of its distribution draws a sample
\* between 0 and 100
ServeSample ==
    /\ pc = "serving"
    /\ NextCall.op = "sample"
    /\ Drawn(Sample(NextCall.dist, Dec(0, 0), Dec(100, 0), NextCall.entropy))
    /\ pc' = Served
    /\ UNCHANGED input

NextSession ==
    \/ ServeEvaluate
    \/ ServeSample

SpecSession ==
    InitSession /\ [][NextSession]_vars

(***************************************************************************)
(* The calls to the server of version 0.5.0.                               *)
(***************************************************************************)
\* the characters of the short inputs
AlphabetV5 ==
    {"1", "2", "+", "-", "*", "/", " ", "."}

\* the longest input drawn from AlphabetV5
MaxLenV5 == 3

\* a o1 b o2 c without parentheses
PlainInputs(a, b, c, o1, o2) ==
    {a \o <<o1>> \o b \o <<o2>> \o c}

RequestV5(given, expression) ==
    [given |-> given, expression |-> expression]

InitV5 ==
    /\ \/ \E k \in 0..MaxLenV5 : \E s \in [1..k -> AlphabetV5] :
              input = RequestV5(TRUE, s)
       \/ \E a \in Operands, b \in Operands, c \in Operands,
             o1 \in BinOps, o2 \in BinOps : \E s \in PlainInputs(a, b, c, o1, o2) :
              input = RequestV5(TRUE, s)
       \/ input = RequestV5(FALSE, <<>>)
    /\ pc = "ready"
    /\ result = NoResult
    /\ response = NoResponse

EvaluateV5 ==
    /\ pc = "ready"
    /\ input.given
    /\ result' = evaluateExpressionV5(input.expression)
    /\ pc' = "evaluated"
    /\ UNCHANGED <<input, response>>

CalculateV5 ==
    /\ pc = "ready"
    /\ response' = handleCalculateV5(input)
    /\ pc' = "calculated"
    /\ UNCHANGED <<input, result>>

NextV5 ==
    \/ EvaluateV5
    \/ CalculateV5

SpecV5 ==
    InitV5 /\ [][NextV5]_vars

(***************************************************************************)
(* The calls to the server of version 0.2.0.                               *)
(***************************************************************************)
\* the characters of the short inputs
AlphabetV2 ==
    {"2", "3", ".", "+", "-", "*", "/", "(", ")", " ", "x"}

\* the longest input drawn from AlphabetV2
MaxLenV2 == 4

\* the examples of implicit multiplication
ImplicitExamples ==
    {<<"5", "(", "2", "+", "3", ")">>,
     <<"2", "+", "3", "(", "4", ")">>,
     <<"8", "/", "2", "(", "4", ")">>}

\* expressions in which a factor follows another without an operator
ImplicitInputs(a, b, c, op) ==
    {a \o <<"(">> \o b \o <<op>> \o c \o <<")">>,
     a \o <<op>> \o b \o <<"(">> \o c \o <<")">>,
     a \o <<op>> \o b \o <<" ">> \o c,
     <<"(">> \o a \o <<op>> \o b \o <<")">> \o c,
     a \o <<"(">> \o b \o <<")", op>> \o c}

InitV2 ==
    /\ \/ \E k \in 0..MaxLenV2 : \E s \in [1..k -> AlphabetV2] :
              input = RequestV5(TRUE, s)
       \/ \E a \in Operands, b \in Operands, c \in Operands, op \in BinOps :
              \E s \in ImplicitInputs(a, b, c, op) : input = RequestV5(TRUE, s)
       \/ \E s \in ImplicitExamples : input = RequestV5(TRUE, s)
       \/ input = RequestV5(FALSE, <<>>)
    /\ pc = "ready"
    /\ result = NoResult
    /\ response = ReplyV2(FALSE, "none", NoErr, "", FZero(0))

EvaluateV2 ==
    /\ pc = "ready"
    /\ input.given
    /\ result' = evaluateExpressionV2(input.expression)
    /\ pc' = "evaluated"
    /\ UNCHANGED <<input, response>>

CalculateV2 ==
    /\ pc = "ready"
    /\ response' = handleCalculateV2(input)
    /\ pc' = "calculated"
    /\ UNCHANGED <<input, result>>

NextV2 ==
    \/ EvaluateV2
    \/ CalculateV2

SpecV2 ==
    InitV2 /\ [][NextV2]_vars

(***************************************************************************)
(* The calls of CalculatorHandler.                                         *)
(***************************************************************************)
OperationArgs ==
    {NoArg, FloatArg(Dec(2, 0)), OtherArg("nil")}
        \cup {StringArg(s) : s \in {"add", "subtract", "multiply", "divide", "power", ""}}

NumberArgs ==
    {NoArg, StringArg("2"), OtherArg("bool"), OtherArg("nil"), IntArg(0), IntArg(3)}
        \cup {FloatArg(v) : v \in {FZero(0), FZero(1), Dec(2, 0), Neg(Dec(5, -1)),
                                   Dec(1, 308)}}

InitHandler ==
    /\ \E operation \in OperationArgs, a \in NumberArgs, b \in NumberArgs :
           input = [operation |-> operation, a |-> a, b |-> b]
    /\ pc = "ready"
    /\ result = NoResult
    /\ response = [isError |-> FALSE, kind |-> "none", text |-> <<>>, err |-> "nil"]

CallCalculator ==
    /\ pc = "ready"
    /\ response' = CalculatorHandler(input)
    /\ pc' = "handled"
    /\ UNCHANGED <<input, result>>

NextHandler ==
    CallCalculator

SpecHandler ==
    InitHandler /\ [][NextHandler]_vars

(***************************************************************************)
(* generateUniform with the rounding of float64.  The bounds of the range  *)
(* are dyadic numbers, which a float64 holds exactly; the widest ranges    *)
(* are the ones whose draw space needs more than 53 bits, and the widest   *)
(* of all overflows int64.                                                 *)
(***************************************************************************)
Dyadic(s, n, x) ==
    Norm(s, BFromNat(n), x)

Mins64 ==
    {Dyadic(0, 0, 0), Dyadic(0, 1, 0), Dyadic(1, 1, 0), Dyadic(0, 1, 40),
     Dyadic(1, 3, 30), Dyadic(1, 1, 40), Dyadic(1, 3, 39), Dyadic(1, 1, 44),
     Dyadic(1, 1, 52)}

Maxs64 ==
    {Dyadic(1, 1, 0), Dyadic(0, 1, -2), Dyadic(0, 3, -3), Dyadic(0, 1, -1),
     Dyadic(0, 1, 0), Dyadic(0, 25, 2), Dyadic(0, 1, 41)}

Architectures ==
    {"amd64", "arm64"}

InitUniform64 ==
    /\ input \in [min : Mins64, max : Maxs64, entropy : EntropyOutcomes,
                  arch : Architectures]
    /\ pc = "start"
    /\ result = [val |-> Norm(0, <<>>, 0), err |-> "none"]
    /\ response = NoReply

\* a call of generateUniform(min, max)
CallUniform64 ==
    /\ pc = "start"
    /\ pc' = "drawn"
    /\ result' = generateUniform64(input.min, input.max, input.entropy, input.arch)
    /\ UNCHANGED <<input, response>>

NextUniform64 ==
    CallUniform64

SpecUniform64 ==
    InitUniform64 /\ [][NextUniform64]_vars

(***************************************************************************)
(* The Tokenizer of version 0.2.0 on its own: NewTokenizer(input), then    *)
(* calls of NextToken.  The cursor t.pos is kept in pc and the tokens      *)
(* returned so far in result.                                              *)
(***************************************************************************)
\* the most calls of NextToken on one Tokenizer
MaxTokenCalls == 6

InitTokenizer ==
    /\ \E k \in 0..MaxLenV2 : input \in [1..k -> AlphabetV2]
    /\ pc = 0
    /\ result = <<>>
    /\ response = NoReply

\* t.NextToken()
CallNextToken ==
    /\ Len(result) < MaxTokenCalls
    /\ result' = Append(result, NextToken(input, pc))
    /\ pc' = NextToken(input, pc).pos
    /\ UNCHANGED <<input, response>>

NextTokenizer ==
    CallNextToken

SpecTokenizer ==
    InitTokenizer /\ [][NextTokenizer]_vars

(***************************************************************************)
(* ServeStdio.  input holds the lines of the standard input, result the    *)
(* server with the number of lines read, response the responses written to *)
(* the standard output, each with the number of the line it answers.  A    *)
(* step is one turn of the loop; the writes to the standard output succeed.*)
(***************************************************************************)
\* the most lines of one input
MaxLines == 3

\* the IDs of the requests
RequestIDs ==
    {"1", "2"}

CalculatorCall ==
    ObjectParams("calculator", [operation |-> StringArg("add"), a |-> IntArg(3),
                                b |-> FloatArg(Dec(2, 0))])

\* the params the requests of each method come with
ParamsOf(method) ==
    CASE method = "initialize" -> {NoParams, ObjectParams("", NoParams.arguments)}
      [] method = "tools/call" -> {BadParams, CalculatorCall,
                                   ObjectParams("unknown", NoParams.arguments)}
      [] OTHER -> {NoParams}

Requests ==
    UNION {{JSONRPCRequest(id, method, params) : id \in RequestIDs, params \in ParamsOf(method)} :
               method \in {"initialize", "tools/list", "tools/call", "ping"}}

\* a line: empty, not JSON of a request, or a request
EmptyLine ==
    [json |-> "empty", req |-> JSONRPCRequest("nil", "", NoParams)]

InvalidLine ==
    [json |-> "invalid", req |-> JSONRPCRequest("nil", "", NoParams)]

RequestLine(req) ==
    [json |-> "request", req |-> req]

Lines ==
    {EmptyLine, InvalidLine} \cup {RequestLine(req) : req \in Requests}

InitStdio ==
    /\ \E k \in 0..MaxLines : input \in [1..k -> Lines]
    /\ pc = "scan"
    /\ result = [server |-> NewServer, read |-> 0]
    /\ response = <<>>

\* the response to the line just read is written
Written(r) ==
    Append(response, [line |-> result.read + 1, response |-> r])

\* line == "": continue
SkipEmptyLine ==
    /\ pc = "scan" /\ result.read < Len(input)
    /\ input[result.read + 1].json = "empty"
    /\ result' = [result EXCEPT !.read = @ + 1]
    /\ UNCHANGED <<input, pc, response>>

\* json.Unmarshal of the line fails
RejectLine ==
    /\ pc = "scan" /\ result.read < Len(input)
    /\ input[result.read + 1].json = "invalid"
    /\ result' = [result EXCEPT !.read = @ + 1]
    /\ response' = Written(ParseErrorResponse)
    /\ UNCHANGED <<input, pc>>

\* the line is a request: h is what HandleRequest leaves
ServedLine(h) ==
    /\ result' = [server |-> h.server, read |-> result.read + 1]
    /\ response' = Written(h.response)

ServeLine ==
    /\ pc = "scan" /\ result.read < Len(input)
    /\ input[result.read + 1].json = "request"
    /\ ServedLine(HandleRequest(result.server, input[result.read + 1].req))
    /\ UNCHANGED <<input, pc>>

\* scanner.Scan() is false at the end of the input: return nil
EndOfInput ==
    /\ pc = "scan" /\ result.read = Len(input)
    /\ pc' = "returned"
    /\ UNCHANGED <<input, result, response>>

\* scanner.Scan() is false after a failed read or a line too long: the
\* error of the scanner is returned
ScanError ==
    /\ pc = "scan" /\ result.read < Len(input)
    /\ pc' = "failed"
    /\ UNCHANGED <<input, result, response>>

NextStdio ==
    \/ SkipEmptyLine
    \/ RejectLine
    \/ ServeLine
    \/ EndOfInput
    \/ ScanError

SpecStdio ==
    InitStdio /\ [][NextStdio]_vars

(***************************************************************************)
(* HTTP mode.  net/http runs every request in a goroutine of its own, and  *)
(* the handlers read and write the initialized flag without a lock, so the *)
(* steps of the requests interleave at every access to the flag.  input    *)
(* holds the requests, pc the place of each one in its handler, result the *)
(* server and response the answer to each request.  No initialize request  *)
(* exists in this mode.  A goroutine that has read true or has written the *)
(* flag reads true from then on, as the flag is never written false.       *)
(***************************************************************************)
\* the requests in flight
MaxRequests == 2

\* the bodies of the POST requests to /mcp/tools/call: no JSON, a call of the
\* calculator, a call of a tool that is not registered
Bodies ==
    {BadParams, CalculatorCall, ObjectParams("unknown", NoParams.arguments)}

HTTPRequest(method, path, body) ==
    [method |-> method, path |-> path, body |-> body]

HTTPRequests ==
    {HTTPRequest(method, "/mcp/tools/list", NoParams) : method \in {"POST", "GET"}}
        \cup {HTTPRequest(method, "/mcp/tools/call", body) :
                 method \in {"POST", "GET"}, body \in Bodies}

NoAnswer ==
    HTTPAnswer(0, "", ErrorResponse("nil", "none", ""))

InitHTTP ==
    /\ input \in [1..MaxRequests -> HTTPRequests]
    /\ pc = [i \in 1..MaxRequests |-> "start"]
    /\ result = NewServer
    /\ response = [i \in 1..MaxRequests |-> NoAnswer]

\* if r.Method != http.MethodPost: 405
CheckMethod(i) ==
    /\ pc[i] = "start"
    /\ IF input[i].method # "POST"
          THEN /\ response' = [response EXCEPT ![i] =
                                   HTTPAnswer(405, "Method not allowed",
                                              ErrorResponse("nil", "none", ""))]
               /\ pc' = [pc EXCEPT ![i] = "done"]
          ELSE /\ pc' = [pc EXCEPT ![i] = "check"]
               /\ UNCHANGED response
    /\ UNCHANGED <<input, result>>

\* what an unsynchronized read of the flag may give: the value in memory, or
\* the false from before a write of another goroutine that is not visible yet
Visible(initialized) ==
    IF initialized THEN {TRUE, FALSE} ELSE {FALSE}

\* if !s.initialized
ReadInitialized(i) ==
    /\ pc[i] = "check"
    /\ \E seen \in Visible(result.initialized) :
           pc' = [pc EXCEPT ![i] = AfterCheck(seen)]
    /\ UNCHANGED <<input, result, response>>

\* s.initialized = true
SetInitialized(i) ==
    /\ pc[i] = "set"
    /\ result' = [result EXCEPT !.initialized = TRUE]
    /\ pc' = [pc EXCEPT ![i] = "decode"]
    /\ UNCHANGED <<input, response>>

\* the request is handed to HandleRequest and h, what it leaves, is written
Dispatched(i, h) ==
    /\ result' = h.server
    /\ response' = [response EXCEPT ![i] = writeJSONResponse(h.response)]

\* the rest of httpToolsList
ListTools(i) ==
    /\ pc[i] = "decode" /\ input[i].path = "/mcp/tools/list"
    /\ Dispatched(i, HandleRequest(result, JSONRPCRequest("1", "tools/list", NoParams)))
    /\ pc' = [pc EXCEPT ![i] = "done"]
    /\ UNCHANGED input

\* the rest of httpToolsCall: the body is decoded, then the call is handled
CallTool(i) ==
    /\ pc[i] = "decode" /\ input[i].path = "/mcp/tools/call"
    /\ IF ~Decodes(input[i].body)
          THEN /\ response' = [response EXCEPT ![i] =
                                   HTTPAnswer(400, "Invalid JSON",
                                              ErrorResponse("nil", "none", ""))]
               /\ UNCHANGED result
          ELSE Dispatched(i, HandleRequest(result, JSONRPCRequest("1", "tools/call",
                                                                  input[i].body)))
    /\ pc' = [pc EXCEPT ![i] = "done"]
    /\ UNCHANGED input

NextHTTP ==
    \E i \in 1..MaxRequests :
        \/ CheckMethod(i)
        \/ ReadInitialized(i)
        \/ SetInitialized(i)
        \/ ListTools(i)
        \/ CallTool(i)

SpecHTTP ==
    InitHTTP /\ [][NextHTTP]_vars

(***************************************************************************)
(* Vocabulary of the properties.                                           *)
(***************************************************************************)
Evaluated ==
    pc = "evaluated"

Calculated ==
    pc = "calculated"

\* the input without its spaces
Stripped ==
    SelectSeq(input, LAMBDA c : c # " ")

Accepts(s) ==
    evaluateExpression(s).err = NoErr

Value(s) ==
    evaluateExpression(s).val

Returns(v) ==
    [val |-> v, err |-> NoErr]

Rejects(kind, ch, text) ==
    [val |-> FZero(0), err |-> Err(kind, ch, 0, text)]

\* the outcome of x op y
Apply(op, x, y) ==
    CASE op = "+" -> Returns(Add(x, y))
      [] op = "-" -> Returns(Sub(x, y))
      [] op = "*" -> Returns(Mul(x, y))
      [] op = "/" -> IF IsZero(y) THEN Rejects("DivisionByZero", "", <<>>)
                                  ELSE Returns(Quo(x, y))

\* the outcome of x op y when y is itself an outcome
ApplyTo(op, x, yo) ==
    IF yo.err # NoErr THEN yo ELSE Apply(op, x, yo.val)

\* the outcome of x op y when x is itself an outcome
ApplyFrom(op, xo, y) ==
    IF xo.err # NoErr THEN xo ELSE Apply(op, xo.val, y)

Count(s, c, i, j) ==
    Cardinality({k \in i..j : s[k] = c})

\* the number of parentheses open before position i of s
Depth(s, i) ==
    Count(s, "(", 1, i - 1) - Count(s, ")", 1, i - 1)

\* characters an operand can end with
OperandEnd ==
    {DigitChars[k] : k \in 1..10} \cup {".", ")"}

\* position i of s holds a binary operator
BinaryAt(s, i) ==
    i > 1 /\ s[i] \in BinOps /\ s[i - 1] \in OperandEnd

\* the positions of the binary operators of s outside all parentheses
TopOps(s) ==
    {i \in 1..Len(s) : BinaryAt(s, i) /\ Depth(s, i) = 0}

\* s[i..j] is a parenthesis pair around a non-empty text
Parenthesised(s, i, j) ==
    /\ i + 1 < j /\ s[i] = "(" /\ s[j] = ")"
    /\ \A k \in i + 1..j : Depth(s, k) > Depth(s, i)
    /\ Depth(s, j + 1) = Depth(s, i)

(***************************************************************************)
(* C1: * and / bind tighter than binary + and -, and a parenthesised       *)
(* sub-expression is one operand: a+b*c evaluates to a+(b*c) and (x)*c to  *)
(* the value of x times c, for all operands the evaluator accepts.         *)
(***************************************************************************)
C1_Precedence ==
    Evaluated =>
        LET s    == Stripped
            tops == TopOps(s)
        IN  /\ \A i \in tops, j \in tops :
                   ( /\ i < j /\ tops = {i, j}
                     /\ s[i] \in {"+", "-"} /\ s[j] \in {"*", "/"}
                     /\ Accepts(SubSeq(s, 1, i - 1))
                     /\ Accepts(SubSeq(s, i + 1, j - 1))
                     /\ Accepts(SubSeq(s, j + 1, Len(s))) )
                   => result = ApplyTo(s[i], Value(SubSeq(s, 1, i - 1)),
                                       Apply(s[j], Value(SubSeq(s, i + 1, j - 1)),
                                                   Value(SubSeq(s, j + 1, Len(s)))))
            /\ \A j \in tops :
                   ( /\ tops = {j} /\ Parenthesised(s, 1, j - 1)
                     /\ Accepts(SubSeq(s, 2, j - 2))
                     /\ Accepts(SubSeq(s, j + 1, Len(s))) )
                   => result = Apply(s[j], Value(SubSeq(s, 2, j - 2)),
                                           Value(SubSeq(s, j + 1, Len(s))))
            /\ \A j \in tops :
                   ( /\ tops = {j} /\ Parenthesised(s, j + 1, Len(s))
                     /\ Accepts(SubSeq(s, 1, j - 1))
                     /\ Accepts(SubSeq(s, j + 2, Len(s) - 1)) )
                   => result = Apply(s[j], Value(SubSeq(s, 1, j - 1)),
                                           Value(SubSeq(s, j + 2, Len(s) - 1)))

\* 2+3*2 was evaluated to 8 and (2+3)*2 could be evaluated to 10
C1_Witness ==
    /\ Evaluated
    /\ input = <<"2", "+", "3", "*", "2">>
    /\ result = Returns([k |-> "fin", s |-> 0, n |-> 8, d |-> 1, e |-> 0])
    /\ evaluateExpression(<<"(", "2", "+", "3", ")", "*", "2">>)
           = Ok([k |-> "fin", s |-> 0, n |-> 1, d |-> 1, e |-> 1], <<>>)

(***************************************************************************)
(* C2: a run of same-precedence binary operators is accumulated left to    *)
(* right: a-b-c evaluates to (a-b)-c and a/b/c to (a/b)/c, also when the   *)
(* operators of the run are mixed.                                         *)
(***************************************************************************)
C2_LeftAssociative ==
    Evaluated =>
        LET s    == Stripped
            tops == TopOps(s)
        IN  \A i \in tops, j \in tops :
                ( /\ i < j /\ tops = {i, j}
                  /\ \/ {s[i], s[j]} \subseteq {"+", "-"}
                     \/ {s[i], s[j]} \subseteq {"*", "/"}
                  /\ Accepts(SubSeq(s, 1, i - 1))
                  /\ Accepts(SubSeq(s, i + 1, j - 1))
                  /\ Accepts(SubSeq(s, j + 1, Len(s))) )
                => result = ApplyFrom(s[j],
                                      Apply(s[i], Value(SubSeq(s, 1, i - 1)),
                                                  Value(SubSeq(s, i + 1, j - 1))),
                                      Value(SubSeq(s, j + 1, Len(s))))

\* 3-2-1 was evaluated to 0 (not 2) and 2/2/2 could be evaluated to 0.5
C2_Witness ==
    /\ Evaluated
    /\ input = <<"3", "-", "2", "-", "1">>
    /\ result = Returns(FZero(0))
    /\ evaluateExpression(<<"2", "/", "2", "/", "2">>)
           = Ok([k |-> "fin", s |-> 0, n |-> 5, d |-> 1, e |-> -1], <<>>)

(***************************************************************************)
(* C3: any number of leading + and - signs is accepted before a factor, at *)
(* the start, directly after a binary operator and directly after "(";     *)
(* the factor is negated once per "-", and the signs bind to it alone.     *)
(***************************************************************************)
Signs ==
    {"+", "-"}

\* the number of sign characters s starts with
SignLen(s) ==
    IF \A k \in 1..Len(s) : s[k] \in Signs THEN Len(s)
    ELSE (CHOOSE k \in 1..Len(s) :
              s[k] \notin Signs /\ \A j \in 1..k - 1 : s[j] \in Signs) - 1

\* s without its leading signs
Factor(s) ==
    SubSeq(s, SignLen(s) + 1, Len(s))

RECURSIVE NegTimes(_, _)
NegTimes(v, k) ==
    IF k = 0 THEN v ELSE Neg(NegTimes(v, k - 1))

\* the factor of s negated once per leading "-"
SignedValue(s) ==
    NegTimes(Value(Factor(s)), Count(s, "-", 1, SignLen(s)))

C3_UnarySigns ==
    Evaluated =>
        LET s    == Stripped
            tops == TopOps(s)
            x    == SubSeq(s, 2, Len(s) - 1)
        IN  /\ ( /\ tops = {} /\ Len(s) > 0 /\ s[1] \in Signs
                 /\ Accepts(Factor(s)) )
               => result = Returns(SignedValue(s))
            /\ \A i \in tops :
                   LET a == SubSeq(s, 1, i - 1)
                       c == SubSeq(s, i + 1, Len(s))
                   IN  ( /\ tops = {i} /\ Len(c) > 0
                         /\ a[1] \in Signs \/ c[1] \in Signs
                         /\ Accepts(Factor(a)) /\ Accepts(Factor(c)) )
                       => result = Apply(s[i], SignedValue(a), SignedValue(c))
            /\ ( /\ Parenthesised(s, 1, Len(s)) /\ TopOps(x) = {}
                 /\ x[1] \in Signs /\ Accepts(Factor(x)) )
               => result = Returns(SignedValue(x))

\* --2 was evaluated to 2
C3_Witness ==
    /\ Evaluated
    /\ input = <<"-", "-", "2">>
    /\ result = Returns([k |-> "fin", s |-> 0, n |-> 2, d |-> 1, e |-> 0])

(***************************************************************************)
(* C4: a division whose right operand evaluates to zero (0, a negated      *)
(* zero, a parenthesised expression that is zero) never yields a value and *)
(* is reported as a division by zero, also 0/0; a division-by-zero error   *)
(* is reported only when such a division stands in the expression.         *)
(***************************************************************************)
NumChars ==
    {DigitChars[k] : k \in 1..10} \cup {".", "e", "E"}

\* the operand ending at position j of s is not continued by s[j+1]
EndsOperand(s, j) ==
    j = Len(s) \/ s[j] = ")" \/ s[j + 1] \notin NumChars

\* r is a single operand that evaluates to zero
ZeroOperand(r) ==
    TopOps(r) = {} /\ Accepts(r) /\ IsZero(Value(r))

\* the divisions of s by an operand s[i+1..j] that is zero
DivisionsByZero(s) ==
    {p \in (1..Len(s)) \X (1..Len(s)) :
        /\ p[1] < p[2] /\ s[p[1]] = "/"
        /\ EndsOperand(s, p[2])
        /\ ZeroOperand(SubSeq(s, p[1] + 1, p[2]))}

\* s with s[i+1..j] replaced by t
Patch(s, i, j, t) ==
    SubSeq(s, 1, i) \o t \o SubSeq(s, j + 1, Len(s))

C4_DivisionByZero ==
    Evaluated =>
        LET s  == Stripped
            dz == DivisionsByZero(s)
        IN  /\ \A p \in dz :
                   /\ result.err # NoErr
                   /\ Accepts(Patch(s, p[1], p[2], <<"(", "2", ")">>))
                      => result = Rejects("DivisionByZero", "", <<>>)
            /\ result.err.kind = "DivisionByZero" => dz # {}

\* 0/0 was rejected as a division by zero
C4_Witness ==
    /\ Evaluated
    /\ input = <<"0", "/", "0">>
    /\ result = Rejects("DivisionByZero", "", <<>>)

(***************************************************************************)
(* C5: the whole input must be consumed: when a complete expression is     *)
(* followed by a character that cannot continue it, the evaluation fails   *)
(* with an unexpected-character error for that character, never a value.   *)
(***************************************************************************)
C5_WholeInputConsumed ==
    Evaluated =>
        LET s   == Stripped
            top == parseAddSubWithRemaining(s)
        IN  /\ \A k \in 1..Len(s) - 1 :
                   ( /\ Accepts(SubSeq(s, 1, k))
                     /\ s[k + 1] \notin BinOps
                     /\ s[k] = ")" \/ s[k + 1] \notin NumChars )
                   => result = [val |-> FZero(0),
                                err |-> Err("UnexpectedChar", s[k + 1], k, <<>>)]
            /\ (Len(s) > 0 /\ top.err = NoErr /\ Len(top.rem) > 0)
                   => /\ result.err.kind = "UnexpectedChar"
                      /\ result.err.ch = top.rem[1]

\* 2+2) was rejected for the character ")" after the expression 2+2
C5_Witness ==
    /\ Evaluated
    /\ input = <<"2", "+", "2", ")">>
    /\ result.err = Err("UnexpectedChar", ")", 3, <<>>)

(***************************************************************************)
(* C6: "()" and a "(" without its ")" never yield a value; where "()"      *)
(* stands for an operand of an otherwise valid expression the error is the *)
(* empty-parentheses error, and where closing parentheses at the end are   *)
(* all that is missing it is the unmatched-parenthesis error.              *)
(***************************************************************************)
\* the "(" at position i of s has no matching ")"
Unmatched(s, i) ==
    s[i] = "(" /\ \A j \in i + 1..Len(s) + 1 : Depth(s, j) > Depth(s, i)

RECURSIVE Closers(_)
Closers(k) ==
    IF k <= 0 THEN <<>> ELSE <<")">> \o Closers(k - 1)

C6_Parentheses ==
    Evaluated =>
        LET s == Stripped
        IN  /\ \A i \in 1..Len(s) - 1 :
                   (s[i] = "(" /\ s[i + 1] = ")")
                   => /\ result.err # NoErr
                      /\ Accepts(Patch(s, i, i, <<"2">>))
                         => result = Rejects("EmptyParens", "", <<>>)
            /\ \A i \in 1..Len(s) :
                   Unmatched(s, i)
                   => /\ result.err # NoErr
                      /\ Accepts(s \o Closers(Depth(s, Len(s) + 1)))
                         => result = Rejects("MissingCloseParen", "", <<>>)

\* (()) was rejected for its empty parentheses
C6_Witness ==
    /\ Evaluated
    /\ input = <<"(", "(", ")", ")">>
    /\ result = Rejects("EmptyParens", "", <<>>)

(***************************************************************************)
(* C7: a binary operator with no operand after it never yields a value: at *)
(* the end of the input and directly before ")" the error is the           *)
(* trailing-operator error naming the operator, and for the second of two  *)
(* * or / in a row it is the missing-operand error naming that operator.   *)
(***************************************************************************)
MulOps ==
    {"*", "/"}

C7_MissingOperand ==
    Evaluated =>
        LET s == Stripped
            n == Len(s)
        IN  /\ \A i \in 1..n :
                   ( /\ s[i] \in BinOps
                     /\ i = n \/ s[i + 1] = ")" \/ s[i + 1] \in MulOps )
                   => result.err # NoErr
            /\ (n > 1 /\ s[n] \in BinOps /\ Accepts(SubSeq(s, 1, n - 1)))
                   => result = Rejects("TrailingOperator", s[n], <<>>)
            /\ \A i \in 2..n - 1 :
                   ( /\ s[i] \in BinOps /\ s[i + 1] = ")"
                     /\ Accepts(Patch(s, i - 1, i, <<>>)) )
                   => result = Rejects("TrailingOperator", s[i], <<>>)
            /\ \A i \in 2..n - 1 :
                   ( /\ s[i] \in MulOps /\ s[i + 1] \in MulOps
                     /\ Accepts(Patch(s, i, i + 1, <<>>)) )
                   => result = Rejects("ExpectedNumber", s[i + 1], <<>>)

\* (2+) was rejected for the operator + at the end of the parenthesised text
C7_Witness ==
    /\ Evaluated
    /\ input = <<"(", "2", "+", ")">>
    /\ result = Rejects("TrailingOperator", "+", <<>>)

(***************************************************************************)
(* C8: an expression with a character outside 0-9 . e E + - * / ( ) and    *)
(* space never yields a value: evaluateExpression returns an error, and    *)
(* handleCalculate rejects it for that character before evaluating it.     *)
(***************************************************************************)
LexChars ==
    {DigitChars[k] : k \in 1..10}
        \cup {".", "e", "E", "+", "-", "*", "/", "(", ")", " "}

HasForeign(s) ==
    \E i \in 1..Len(s) : s[i] \notin LexChars

C8_ForeignCharacter ==
    /\ (Evaluated /\ HasForeign(input)) => result.err # NoErr
    /\ (Calculated /\ HasForeign(input) /\ Len(input) <= MaxExprLen)
           => /\ response.isError
              /\ response.kind = "InvalidCharacter"
              /\ response.ch \notin LexChars

\* the tool call with 2&2 was rejected for the character &
C8_Witness ==
    /\ Calculated
    /\ input = <<"2", "&", "2">>
    /\ response = ToolError("InvalidCharacter", "&", NoErr)

(***************************************************************************)
(* C9: malformed numeric text (two points, no digit, an exponent marker    *)
(* without digits, a second exponent) never yields a value and is never    *)
(* split; where it stands for a number of an otherwise valid expression    *)
(* the error is the invalid-number error naming exactly that text.         *)
(***************************************************************************)
\* s[k] belongs to numeric text: a digit, a point, an exponent marker, or a
\* sign directly after an exponent marker
NumTextChar(s, k) ==
    \/ s[k] \in NumChars
    \/ s[k] \in Signs /\ k > 1 /\ s[k - 1] \in {"e", "E"}

\* s[i..j] is a maximal run of numeric text
NumText(s, i, j) ==
    /\ i <= j
    /\ \A k \in i..j : NumTextChar(s, k)
    /\ i = 1 \/ ~NumTextChar(s, i - 1)
    /\ j = Len(s) \/ ~NumTextChar(s, j + 1)

\* digits with at most one point and at least one digit
MantissaText(t) ==
    /\ \A k \in 1..Len(t) : IsDigit(t[k]) \/ t[k] = "."
    /\ Count(t, ".", 1, Len(t)) <= 1
    /\ \E k \in 1..Len(t) : IsDigit(t[k])

\* an optional sign and at least one digit
ExponentText(t) ==
    LET ds == IF Len(t) > 0 /\ t[1] \in Signs THEN Tail(t) ELSE t
    IN  Len(ds) > 0 /\ \A k \in 1..Len(ds) : IsDigit(ds[k])

\* t is a decimal literal with its exponent marker at position q
ExponentLiteral(t, q) ==
    /\ q \in 1..Len(t) /\ t[q] \in {"e", "E"}
    /\ MantissaText(SubSeq(t, 1, q - 1))
    /\ ExponentText(SubSeq(t, q + 1, Len(t)))

WellFormedNumber(t) ==
    MantissaText(t) \/ \E q \in 1..Len(t) : ExponentLiteral(t, q)

C9_MalformedNumber ==
    Evaluated =>
        LET s == Stripped
        IN  \A i \in 1..Len(s), j \in 1..Len(s) :
                (NumText(s, i, j) /\ ~WellFormedNumber(SubSeq(s, i, j)))
                => /\ result.err # NoErr
                   /\ Accepts(Patch(s, i - 1, j, <<"2">>))
                      => result = Rejects("InvalidNumber", "", SubSeq(s, i, j))

\* 1.1.1 was rejected as one malformed number
C9_Witness ==
    /\ Evaluated
    /\ input = <<"1", ".", "1", ".", "1">>
    /\ result = Rejects("InvalidNumber", "", <<"1", ".", "1", ".", "1">>)

(***************************************************************************)
(* C10: a number with an exponent suffix is one literal, a sign directly   *)
(* after the exponent marker belonging to the exponent: its value is the   *)
(* mantissa scaled by ten to the signed exponent, alone or as an operand.  *)
(***************************************************************************)
RECURSIVE NatOf(_)
NatOf(ds) ==
    IF Len(ds) = 0 THEN 0
    ELSE 10 * NatOf(SubSeq(ds, 1, Len(ds) - 1)) + DigitVal(ds[Len(ds)])

\* the signed exponent written after position q of the literal t
ExponentOf(t, q) ==
    LET x == SubSeq(t, q + 1, Len(t))
    IN  IF x[1] = "-" THEN -NatOf(Tail(x))
        ELSE IF x[1] = "+" THEN NatOf(Tail(x))
        ELSE NatOf(x)

\* v * 10^k as a float64
Scale(v, k) ==
    Round(v.s, v.n, v.d, v.e + k)

\* the outcome of reading the literal t with its exponent marker at q
LiteralOutcome(t, q) ==
    LET v == Scale(Value(SubSeq(t, 1, q - 1)), ExponentOf(t, q))
    IN  IF v.k = "inf" THEN Rejects("InvalidNumber", "", t) ELSE Returns(v)

C10_ExponentLiteral ==
    Evaluated =>
        LET s    == Stripped
            tops == TopOps(s)
        IN  /\ \A q \in 1..Len(s) :
                   ExponentLiteral(s, q) => result = LiteralOutcome(s, q)
            /\ \A i \in tops :
                   LET a == SubSeq(s, 1, i - 1)
                       c == SubSeq(s, i + 1, Len(s))
                   IN  \A q \in 1..Len(a) :
                           ( /\ tops = {i} /\ ExponentLiteral(a, q)
                             /\ Accepts(a) /\ Accepts(c) )
                           => result = Apply(s[i], LiteralOutcome(a, q).val, Value(c))
            /\ \A i \in tops :
                   LET a == SubSeq(s, 1, i - 1)
                       c == SubSeq(s, i + 1, Len(s))
                   IN  \A q \in 1..Len(c) :
                           ( /\ tops = {i} /\ ExponentLiteral(c, q)
                             /\ Accepts(a) /\ Accepts(c) )
                           => result = Apply(s[i], Value(a), LiteralOutcome(c, q).val)

\* 1.1e-1 was evaluated to 0.11
C10_Witness ==
    /\ Evaluated
    /\ input = <<"1", ".", "1", "e", "-", "1">>
    /\ result = Returns([k |-> "fin", s |-> 0, n |-> 11, d |-> 1, e |-> -2])

(***************************************************************************)
(* C11: the empty string and every string made only of spaces is rejected  *)
(* as an empty expression: evaluateExpression returns the empty-expression *)
(* error, and handleCalculate answers with an error and no result text     *)
(* (its own empty-expression error for the empty string, the evaluator's   *)
(* one for spaces).                                                        *)
(***************************************************************************)
Blank(s) ==
    \A k \in 1..Len(s) : s[k] = " "

C11_EmptyExpression ==
    Blank(input) =>
        /\ Evaluated => result = Rejects("EmptyExpression", "", <<>>)
        /\ Calculated =>
               /\ response.isError
               /\ response.text = <<>>
               /\ IF Len(input) = 0
                     THEN response = ToolError("EmptyExpression", "", NoErr)
                  ELSE response = ToolError("CalculationError", "",
                                            Err("EmptyExpression", "", 0, <<>>))

\* two spaces were rejected by evaluateExpression as an empty expression
C11_Witness ==
    /\ Evaluated
    /\ input = <<" ", " ">>
    /\ result = Rejects("EmptyExpression", "", <<>>)

(***************************************************************************)
(* C12: a NaN result never reaches formatResult: when the evaluation of an *)
(* accepted expression gives NaN, handleCalculate answers with its         *)
(* invalid-number error, and no answer carries the text of a formatted NaN.*)
(***************************************************************************)
C12_NaNNeverFormatted ==
    Calculated =>
        /\ (Accepts(input) /\ IsNaN(Value(input)))
               => response = ToolError("NaN", "", NoErr)
        /\ response.text # formatResult(FNaN)

\* 9e307*9*0 is infinity times zero: the answer was the invalid-number error
C12_Witness ==
    /\ Calculated
    /\ input = HugeLiteral \o <<"*", "9", "*", "0">>
    /\ Accepts(input) /\ IsNaN(Value(input))
    /\ response = ToolError("NaN", "", NoErr)

(***************************************************************************)
(* C13: for every range min < max, every value a generator returns without *)
(* error lies in [min, max], whatever the entropy source gives.            *)
(***************************************************************************)
Generated ==
    pc = "generated"

Answered ==
    pc = "answered"

\* min <= v <= max by the comparisons of Go (false of NaN)
WithinRange(v, min, max) ==
    Ge(v, min) /\ Ge(max, v)

C13_SampleWithinRange ==
    (Generated /\ result.err = "none" /\ Lt(input.min.val, input.max.val))
        => WithinRange(result.val, input.min.val, input.max.val)


\* the bounds a request stands for: 1 and 100 where it gives none
EffectiveMin ==
    IF input.min.set THEN input.min.val ELSE Dec(1, 0)

EffectiveMax ==
    IF input.max.set THEN input.max.val ELSE Dec(100, 0)

(***************************************************************************)
(* C14: a random_number request whose minimum is not below its maximum,    *)
(* the defaults 1 and 100 standing for an absent bound, is answered with   *)
(* an error and never with a value, and no entropy is drawn for it; the    *)
(* error is the invalid-range error whenever the distribution is one of    *)
(* the three supported ones.                                               *)
(***************************************************************************)
C14_InvalidRange ==
    (Answered /\ Ge(EffectiveMin, EffectiveMax)) =>
        /\ response.isError
        /\ response.kind # "Result"
        /\ response.val = FZero(0)
        /\ response.draws = 0
        /\ Distribution(input) \in SupportedDistributions
               => response.kind = "InvalidRange"

C14_Witness ==
    /\ Answered
    /\ ~input.min.set
    /\ input.max = Given(Dec(5, -1))
    /\ input.entropy = <<"half", "half">>
    /\ response.kind = "InvalidRange"

\* the first draw a generator makes that fails, 0 when none does
FirstFailure(distribution, es) ==
    IF es[1] = "fail" THEN 1
    ELSE IF distribution = "normal" /\ es[2] = "fail" THEN 2
    ELSE 0

(***************************************************************************)
(* C15: when a draw from the entropy source fails, the generator returns   *)
(* the error and the value 0 without computing a sample and without        *)
(* drawing again (generateNormal also when only its second draw fails),    *)
(* and handleRandomNumber answers with the generation error and no number. *)
(***************************************************************************)
C15_EntropyFailure ==
    /\ (Generated /\ FirstFailure(input.dist.val, input.entropy) # 0) =>
           result = [val |-> FZero(0), err |-> "entropy",
                     draws |-> FirstFailure(input.dist.val, input.entropy)]
    /\ (/\ Answered
        /\ Distribution(input) \in SupportedDistributions
        /\ Lt(EffectiveMin, EffectiveMax)
        /\ FirstFailure(Distribution(input), input.entropy) # 0) =>
           /\ response.isError
           /\ response.kind = "GenerationFailed"
           /\ response.val = FZero(0)
           /\ response.draws = FirstFailure(Distribution(input), input.entropy)

C15_Witness ==
    /\ Answered
    /\ Distribution(input) = "normal"
    /\ input.entropy = <<"half", "fail">>
    /\ response.kind = "GenerationFailed"
    /\ response.draws = 2


ErrorKinds ==
    {"EmptyExpression", "UnexpectedChar", "TrailingOperator", "DivisionByZero",
     "UnexpectedEnd", "MissingCloseParen", "EmptyParens", "ExpectedNumber",
     "InvalidNumber"}

\* the strings expr[k:] of Go
Suffixes(s) ==
    {From(s, k) : k \in 0..Len(s)}

\* r is a successful parse of t that consumed at least one character: what
\* remains is t[k:] for some k > 0
Consumed(r, t) ==
    /\ Len(r.rem) < Len(t)
    /\ r.rem = From(t, Len(t) - Len(r.rem))

\* a parse of t either fails, returning 0, "" and an error of a known kind,
\* or consumes at least one character of t
Advances(r, t) ==
    IF r.err = NoErr THEN Consumed(r, t)
    ELSE r.err.kind \in ErrorKinds /\ r.rem = <<>> /\ IsZero(r.val)

\* the slices of parseNumber on t and, where sc is the scan of parseFactor
\* for the parenthesis that closes t[0], those of parseFactor stay inside t,
\* and the inner expression of a group is shorter than t
SlicesInRange(t, sc) ==
    /\ ScanNumber(t, 0) \in 0..Len(t)
    /\ (Len(t) > 0 /\ t[1] = "(" /\ sc.parenCount = 0) =>
           /\ sc.i \in 2..Len(t)
           /\ t[sc.i] = ")"
           /\ Len(SubSeq(t, 2, sc.i - 1)) < Len(t)

\* the error of the inner expression of a group is the error fac of the
\* group
GroupErrorUnchanged(t, sc, fac) ==
    (Len(t) > 0 /\ t[1] = "(" /\ sc.parenCount = 0 /\ sc.i > 2) =>
        LET inner == parseExpression(SubSeq(t, 2, sc.i - 1))
        IN  inner.err # NoErr => fac.err = inner.err

\* the error of the operand after the operator that follows the parsed
\* prefix first is the error whole of the loop
OperandErrorUnchanged(first, ops, whole) ==
    (first.err = NoErr /\ Len(first.rem) > 1 /\ first.rem[1] \in ops) =>
        LET operand == IF "*" \in ops THEN parseUnary(Tail(first.rem))
                                      ELSE parseMulDiv(Tail(first.rem))
        IN  operand.err # NoErr => whole.err = operand.err

\* the error of the first operand is the error of every caller up the chain
FirstErrorUnchanged(t, fac, una, mul, add, whole) ==
    /\ (fac.err # NoErr /\ Len(t) > 0 /\ t[1] \notin {"+", "-"}) => una.err = fac.err
    /\ una.err # NoErr => mul.err = una.err
    /\ mul.err # NoErr => add.err = mul.err
    /\ add.err # NoErr => whole.err = add.err

\* what C17 says of one string the evaluator can be entered with
SoundOn(t) ==
    LET sc    == ScanParen(t, 1, 1)
        fac   == parseFactor(t)
        una   == parseUnary(t)
        mul   == parseMulDiv(t)
        add   == parseAddSubWithRemaining(t)
        whole == parseExpression(t)
    IN  /\ SlicesInRange(t, sc)
        /\ Len(t) > 0 =>
               /\ Advances(parseNumber(t), t)
               /\ Advances(fac, t)
               /\ Advances(una, t)
               /\ Advances(mul, t)
               /\ Advances(add, t)
        /\ GroupErrorUnchanged(t, sc, fac)
        /\ OperandErrorUnchanged(una, {"*", "/"}, mul)
        /\ OperandErrorUnchanged(mul, {"+", "-"}, add)
        /\ FirstErrorUnchanged(t, fac, una, mul, add, whole)

Integral(v) ==
    v.k = "fin" /\ v.d = 1 /\ v.e >= 0

\* the text is an optional minus sign and digits
PlainInteger(text) ==
    /\ Len(text) > 0
    /\ \A k \in 1..Len(text) : IsDigit(text[k]) \/ (k = 1 /\ text[k] = "-")

(***************************************************************************)
(* C18: the text formatResult gives for a whole-number result, whatever    *)
(* its magnitude, has no decimal point and no fractional digits.           *)
(***************************************************************************)
C18_IntegralWithoutPoint ==
    (Calculated /\ ~response.isError /\ Integral(Value(input))) =>
        /\ response.text = formatResult(Value(input))
        /\ \A k \in 1..Len(response.text) : response.text[k] # "."


\* the digits the precedence claims take their operands from
PlainOperands ==
    {<<DigitChars[k + 1]>> : k \in 0..MaxOperand}

\* the float64 of a digit string
Num(a) ==
    ParseFloat(a).val

(***************************************************************************)
(* C19: the evaluator of version 0.5.0 gives multiplication and division   *)
(* precedence over addition and subtraction wherever the operators stand:  *)
(* a+b*c is a+(b*c), a-b/c is a-(b/c), b*c+a is (b*c)+a and b/c-a is       *)
(* (b/c)-a.                                                                *)
(***************************************************************************)
C19_ProperPrecedence ==
    \A a \in PlainOperands, b \in PlainOperands, c \in PlainOperands :
        (pc = "evaluated") =>
            /\ input.expression = a \o <<"+">> \o b \o <<"*">> \o c
                   => result = Returns(Add(Num(a), Mul(Num(b), Num(c))))
            /\ input.expression = b \o <<"*">> \o c \o <<"+">> \o a
                   => result = Returns(Add(Mul(Num(b), Num(c)), Num(a)))
            /\ (input.expression = a \o <<"-">> \o b \o <<"/">> \o c /\ c # <<"0">>)
                   => result = Returns(Sub(Num(a), Quo(Num(b), Num(c))))
            /\ (input.expression = b \o <<"/">> \o c \o <<"-">> \o a /\ c # <<"0">>)
                   => result = Returns(Sub(Quo(Num(b), Num(c)), Num(a)))


\* the tokens of inp from position pos up to the first end token
RECURSIVE Tokens(_, _)
Tokens(inp, pos) ==
    LET t == NextToken(inp, pos)
    IN  IF t.type = "EOF" THEN <<>> ELSE <<t>> \o Tokens(inp, t.pos)

\* a factor ends with the token t and another begins with the token u
ImplicitSite(t, u) ==
    t.type \in {"Number", ")"} /\ u.type \in {"Number", "("}

\* the text of the tokens ts with * written at every implicit site
RECURSIVE ExplicitText(_)
ExplicitText(ts) ==
    IF Len(ts) = 0 THEN <<>>
    ELSE IF Len(ts) = 1 THEN ts[1].value
    ELSE ts[1].value
             \o (IF ImplicitSite(ts[1], ts[2]) THEN <<"*">> ELSE <<>>)
             \o ExplicitText(Tail(ts))

HasImplicitSite(ts) ==
    \E k \in 1..(Len(ts) - 1) : ImplicitSite(ts[k], ts[k + 1])

\* the float64 of a (signed) digit
Digit(a) ==
    IF a[1] = "-" THEN Neg(ParseFloat(Tail(a)).val) ELSE ParseFloat(a).val

(***************************************************************************)
(* C20: in version 0.2.0 a factor directly followed by a number or by an   *)
(* opening parenthesis is multiplied with it as if * stood between them:   *)
(* the evaluation returns what it returns for the same tokens with the *   *)
(* written out, a(b+c) is a*(b+c), a+b(c) is a+(b*c), a/b(c) is (a/b)*c,   *)
(* and 5(2+3) is 25, 2+3(4) is 14, 8/2(4) is 16.                           *)
(***************************************************************************)
C20_ImplicitMultiplication ==
    (pc = "evaluated") =>
        /\ result = evaluateExpressionV2(ExplicitText(Tokens(input.expression, 0)))
        /\ input.expression = <<"5", "(", "2", "+", "3", ")">> => result = Returns(Dec(25, 0))
        /\ input.expression = <<"2", "+", "3", "(", "4", ")">> => result = Returns(Dec(14, 0))
        /\ input.expression = <<"8", "/", "2", "(", "4", ")">> => result = Returns(Dec(16, 0))
        /\ \A a \in Operands, b \in Operands, c \in Operands :
               /\ input.expression = a \o <<"(">> \o b \o <<"+">> \o c \o <<")">>
                      => result = Returns(Mul(Digit(a), Add(Digit(b), Digit(c))))
               /\ input.expression = a \o <<"+">> \o b \o <<"(">> \o c \o <<")">>
                      => result = Returns(Add(Digit(a), Mul(Digit(b), Digit(c))))
               /\ (input.expression = a \o <<"/">> \o b \o <<"(">> \o c \o <<")">>
                       /\ ~IsZero(Digit(b)))
                      => result = Returns(Mul(Quo(Digit(a), Digit(b)), Digit(c)))

C20_Witness ==
    /\ pc = "evaluated"
    /\ input.expression = <<"8", "/", "2", "(", "4", ")">>
    /\ HasImplicitSite(Tokens(input.expression, 0))
    /\ result = Returns(Dec(16, 0))


\* the argument is a number of the call: a float64 or an int
IsNumber(arg) ==
    arg.present /\ arg.type \in {"float64", "int"}

\* the float64 the number argument stands for
Operand(arg) ==
    IF arg.type = "int" THEN FromInt(arg.int) ELSE arg.num

\* the call is one the handler must refuse
Refused ==
    \/ ~input.operation.present \/ input.operation.type # "string"
    \/ ~IsNumber(input.a) \/ ~IsNumber(input.b)
    \/ input.operation.str \notin {"add", "subtract", "multiply", "divide"}
    \/ input.operation.str = "divide" /\ IsZero(Operand(input.b))

(***************************************************************************)
(* C21: CalculatorHandler answers with an IsError response and no number   *)
(* exactly when operation is missing or not a string, a or b is missing or *)
(* not a number, operation is none of add, subtract, multiply, divide, or  *)
(* operation is divide and b is zero; otherwise with a response that is no *)
(* error and holds a+b, a-b, a*b or a/b; the Go error is nil in all cases. *)
(***************************************************************************)
C21_CalculatorHandler ==
    (pc = "handled") =>
        /\ response.err = "nil"
        /\ Refused => response.isError /\ response.text = <<>>
        /\ ~Refused =>
               /\ ~response.isError
               /\ response.text =
                      formatResult(
                          CASE input.operation.str = "add" ->
                                   Add(Operand(input.a), Operand(input.b))
                            [] input.operation.str = "subtract" ->
                                   Sub(Operand(input.a), Operand(input.b))
                            [] input.operation.str = "multiply" ->
                                   Mul(Operand(input.a), Operand(input.b))
                            [] input.operation.str = "divide" ->
                                   Quo(Operand(input.a), Operand(input.b)))

C21_Witness ==
    /\ pc = "handled"
    /\ input.operation = StringArg("divide")
    /\ input.a = IntArg(3)
    /\ input.b = FloatArg(FZero(1))
    /\ response = CalcError("DivisionByZero")


(***************************************************************************)
(* C22: when the evaluation fails on an unexpected character, the error    *)
(* carries that character and its offset in the string evaluateExpression  *)
(* was called with: the character of the input at that offset is the one   *)
(* the error names, spaces before it and parentheses around it included.   *)
(***************************************************************************)
C22_ErrorPosition ==
    (Evaluated /\ result.err.kind = "UnexpectedChar") =>
        /\ result.err.pos < Len(input)
        /\ input[result.err.pos + 1] = result.err.ch


\* the k-th uniform value generateNormal draws for the request
NormalDraw(k) ==
    generateUniform(Dec(0, 0), Dec(1, 0), input.entropy[k])

(***************************************************************************)
(* C23: the two uniform values generateNormal feeds into the Box-Muller    *)
(* transform lie strictly between 0 and 1, whatever integers are drawn.    *)
(***************************************************************************)
C23_UnitDrawsOpen ==
    (Generated /\ input.dist.val = "normal" /\ result.err = "none") =>
        \A k \in {1, 2} :
            /\ Gt(NormalDraw(k).val, Dec(0, 0))
            /\ Lt(NormalDraw(k).val, Dec(1, 0))

\* N of the claim: (max - min) * 10000 truncated to an integer
ClaimedSpace ==
    [s |-> Mul64(Sub64(input.max, input.min), Precision64).s,
     n |-> Trunc(Mul64(Sub64(input.max, input.min), Precision64))]

SpacePositive ==
    ClaimedSpace.s = 0 /\ ClaimedSpace.n # <<>>

\* the integer the call drew
DrawnInt ==
    RandInt64(input.entropy, DrawSpace64(MaxInt(input.min, input.max, input.arch)))

\* C24: generateUniform(min, max) returns min + k/10000 for an integer k drawn
\* from [0, N), where N is (max - min) * 10000 truncated to an integer; when
\* N <= 0 the result is exactly min, and whenever N >= 1 the result is
\* strictly less than max.
C24_UniformBelowMax ==
    (pc = "drawn" /\ result.err = "none") =>
        /\ result.val = Add64(input.min, Quo64(FromNat64(DrawnInt), Precision64))
        /\ SpacePositive => BCmp(DrawnInt, ClaimedSpace.n) < 0
        /\ ~SpacePositive => result.val = input.min
        /\ SpacePositive => Lt64(result.val, input.max)

\* the input is two runs of digits with only spaces between them
TwoLiterals ==
    \E i \in 1..Len(input), k \in 1..Len(input) :
        /\ i + 1 < k
        /\ \A j \in 1..Len(input) :
               IF i < j /\ j < k THEN input[j] = " " ELSE IsDigit(input[j])

\* C25: in the current evaluator spaces only separate tokens: two number
\* literals separated only by spaces, such as "2 3", are not a valid expression
\* and return an error; the digits on either side of a space are never joined
\* into one number.
C25_SpaceSeparatesNumbers ==
    (Evaluated /\ TwoLiterals) => result.err # NoErr

\* C26: over any sequence of NextToken calls of the Tokenizer of version 0.2.0,
\* once a call has returned the End token every later call returns End, and
\* the cursor never moves backwards.
C26_EndIsFinal ==
    \A i \in 1..Len(result), j \in 1..Len(result) :
        i < j => /\ result[i].pos <= result[j].pos
                 /\ result[i].type = "EOF" => result[j].type = "EOF"

\* the request names no distribution
Unnamed ==
    ~input.dist.set \/ input.dist.val = ""

\* Session.Elicit returned an accept that carries a string
AcceptedString ==
    ~input.elicit.err /\ input.elicit.action = "accept" /\ input.elicit.isString

\* the distribution the claim has the request resolve to
ResolvedName ==
    IF ~Unnamed THEN input.dist.val
    ELSE IF input.session /\ AcceptedString THEN input.elicit.dist
    ELSE "uniform"

\* C27: handleRandomNumber asks for an elicitation only when the distribution
\* argument is absent or empty and the request has a session; every outcome of
\* the elicitation other than an accept that carries a string resolves the
\* distribution to uniform; a sample is generated only if the resolved
\* distribution is uniform, normal or exponential, and any other name returns
\* the unknown-distribution error before the range is checked.
C27_Elicitation ==
    (pc = "answered") =>
        /\ response.elicited => (Unnamed /\ input.session)
        /\ (response.elicited /\ ~AcceptedString) =>
               /\ response.kind # "UnknownDistribution"
               /\ response.kind = "Result" => response.distribution = "uniform"
        /\ response.draws > 0 => ResolvedName \in SupportedDistributions
        /\ response.kind = "Result" => response.distribution = ResolvedName
        /\ ResolvedName \notin SupportedDistributions =>
               /\ response.isError /\ response.kind = "UnknownDistribution"
               /\ response.draws = 0

\* a declined elicitation, answered with a uniform sample
C27_Witness ==
    /\ pc = "answered"
    /\ response.elicited /\ input.elicit.action = "decline"
    /\ response.kind = "Result" /\ response.distribution = "uniform"
    /\ response.draws = 1

\* line i is a request of one of the methods
RequestOf(i, methods) ==
    input[i].json = "request" /\ input[i].req.method \in methods

\* an initialize request whose params decode comes before line i
AcceptedBefore(i) ==
    \E j \in 1..(i - 1) : RequestOf(j, {"initialize"}) /\ Decodes(input[j].req.params)

\* C28: through HandleRequest, for any sequence of requests, tools/list and
\* tools/call return the error "Server not initialized" and run no tool handler
\* until an initialize request has been accepted; an initialize request whose
\* params do not decode returns InvalidParams and leaves the initialized flag
\* as it is; once the flag is true it never becomes false again.
C28_InitializeGate ==
    /\ \A k \in 1..Len(response) :
           /\ (RequestOf(response[k].line, {"tools/list", "tools/call"})
                  /\ ~AcceptedBefore(response[k].line)) =>
                 /\ response[k].response.code = "InternalError"
                 /\ response[k].response.message = "Server not initialized"
           /\ (RequestOf(response[k].line, {"initialize"})
                  /\ ~Decodes(input[response[k].line].req.params)) =>
                 response[k].response.code = "InvalidParams"
    /\ ~AcceptedBefore(result.read + 1) => result.server.calls = 0
    /\ result.server.initialized = AcceptedBefore(result.read + 1)

\* an initialize request that does not decode, a tools/list request refused,
\* then an initialize request accepted
C28_Witness ==
    /\ Len(response) = 3
    /\ RequestOf(1, {"initialize"}) /\ response[1].response.code = "InvalidParams"
    /\ RequestOf(2, {"tools/list"})
    /\ response[2].response.message = "Server not initialized"
    /\ response[3].response.result = InitializeResponse
    /\ result.server.initialized

\* the lines among the first n that are not empty
NonEmptyLines(n) ==
    {i \in 1..n : input[i].json # "empty"}

\* one response for every line read that is not empty, in the order of the
\* lines; a request is answered with its ID and a line that is no JSON with a
\* ParseError without ID; the loop has returned nil only at the end of the input
StdioAnswers ==
    /\ Len(response) = Cardinality(NonEmptyLines(result.read))
    /\ \A k \in 1..Len(response) :
           /\ response[k].line \in NonEmptyLines(result.read)
           /\ \A l \in 1..Len(response) : k < l => response[k].line < response[l].line
           /\ input[response[k].line].json = "request" =>
                  response[k].response.id = input[response[k].line].req.id
           /\ input[response[k].line].json = "invalid" =>
                  /\ response[k].response.code = "ParseError"
                  /\ response[k].response.id = "nil"
    /\ pc = "returned" => result.read = Len(input)
    /\ pc = "failed" => result.read < Len(input)

\* the turn of the loop for a line that is no JSON leaves the server as it is
\* and the loop running
InvalidLineStep ==
    (response' # response /\ input[result.read + 1].json = "invalid") =>
        /\ result'.server = result.server
        /\ pc' = "scan"

\* C29: ServeStdio writes exactly one response for every input line that is
\* not empty, in input order, and each response to a decodable request carries
\* the ID of that request; a line that is not valid JSON gets a ParseError
\* response with a null ID, changes no server state and does not stop the
\* loop; the loop ends only at the end of the input or on a scan error.
C29_OneResponsePerLine ==
    []StdioAnswers /\ [][InvalidLineStep]_vars

\* a line that is no JSON, an empty line and a request, all read to the end
C29_Witness ==
    /\ pc = "returned" /\ Len(input) = 3
    /\ input[1].json = "invalid" /\ input[2].json = "empty"
    /\ RequestOf(3, {"ping"}) /\ input[3].req.id = "2"
    /\ Len(response) = 2
    /\ response[1] = [line |-> 1, response |-> ParseErrorResponse]
    /\ response[2].line = 3 /\ response[2].response.id = "2"

\* every answered POST is answered without the error "Server not
\* initialized", and every other answered request with the status 405
HTTPAnswers ==
    \A i \in 1..MaxRequests :
        pc[i] = "done" =>
            /\ input[i].method = "POST" =>
                   response[i].response.message # "Server not initialized"
            /\ input[i].method # "POST" => response[i].status = 405

\* the step that answers a request that is no POST leaves the server as it is
NonPostStep ==
    \A i \in 1..MaxRequests :
        (pc[i] = "start" /\ pc'[i] # "start" /\ input[i].method # "POST") =>
            /\ pc'[i] = "done"
            /\ result' = result

\* C30: in HTTP mode, under any interleaving of concurrent requests and without
\* an initialize request, a POST to /mcp/tools/list or /mcp/tools/call is never
\* answered with "Server not initialized"; a request to these endpoints that
\* is no POST is answered 405 and leaves the initialized flag unchanged.
C30_HTTPAutoInitialize ==
    []HTTPAnswers /\ [][NonPostStep]_vars

\* two POST requests that both read the flag before either set it: the first
\* is answered with the list of tools while the second is about to set the flag
C30_Witness ==
    /\ input[1] = HTTPRequest("POST", "/mcp/tools/list", NoParams)
    /\ input[2].method = "POST"
    /\ pc[1] = "done" /\ pc[2] = "set"
    /\ response[1].status = 200
    /\ response[1].response.result = ListToolsResponse

=============================================================================
